---- MODULE Spec2Model ----
(***************************************************************************)
(* Roo MCP installer (src/roo.py): repository-reference parsing, the       *)
(* settings (registry) file, and the install_mcp pipeline.                 *)
(*                                                                         *)
(* Strings are sequences of atoms.  Text that the code inspects character  *)
(* by character (the repository reference) is written one character per    *)
(* atom; fixed keys and literals that the code only compares as a whole    *)
(* are single atoms.                                                       *)
(***************************************************************************)
EXTENDS Integers, Sequences, FiniteSets, TLC

VARIABLES
    repo_input,     \* the reference handed to parse_repo_input
    parsed,         \* its outcome (done = FALSE until it has run)
    settings_file,  \* the settings (registry) file on disk
    loaded,         \* settings_data: what read_settings returned (done = FALSE before)
    pc,             \* where the install_mcp call stands; "idle" between calls
    demo_mode,      \* argument of the call
    skip_env_config, \* argument of the call
    setup_config,   \* what detect_project_type returned
    pending,        \* tools the npm pre-check has still to look at
    built,          \* built_executable_path: "unbound", "none" or "set"
    mcp_entry,      \* the entry the call has built
    cmds,           \* the processes the call has started, in order
    removed,        \* the install directories the call has removed
    reg_before,     \* the settings file as it was when the call began
    result,         \* "none", "running", or what the last call returned
    failed_at,      \* the stage at which the last call gave up
    prev_call,      \* the call before the current one
    dirs,           \* install directories on disk, by server name
    on_path,          \* the tools that resolve on the search path
    is_windows,     \* os.name == 'nt' / sys.platform == 'win32'
    calls,          \* number of install_mcp calls begun
    registry,       \* the dict handed to write_settings on its own
    workdir,        \* the files env-requirement discovery is run on, on its own
    discovered,     \* what it found (done = FALSE before)
    tool_call,      \* the last check_and_install_tool or run_command call on its own
    configs,        \* the arguments of merge_configs, in order
    merged,         \* what merge_configs made of them (done = FALSE before)
    runs,           \* two install_mcp calls at work on one settings file at a time
    detect_call,    \* a detect_project_type call on its own
    run_detect,     \* a detect_run_command call on its own
    follow,         \* a show_logs call in follow mode
    prompted        \* the Prompt.ask calls of the env stage, with their answers

parseVars == <<repo_input, parsed>>
fileVars  == <<settings_file, loaded>>
unitVars  == <<registry, workdir, discovered, tool_call, configs, merged, runs, detect_call,
               run_detect, follow>>
argVars   == <<demo_mode, skip_env_config, reg_before, prev_call, calls, unitVars>>
ctlVars   == <<pc, result, failed_at>>
workVars  == <<setup_config, pending, built, mcp_entry, cmds, removed, prompted>>
worldVars == <<dirs, on_path, is_windows>>
pipeVars  == <<argVars, ctlVars, workVars, worldVars>>
vars      == <<parseVars, fileVars, pipeVars>>

(***************************************************************************)
(* Character-level helpers (Python str methods used by parse_repo_input)    *)
(***************************************************************************)
IsWs(c) == c \in {" ", "\t", "\n"}

RECURSIVE LStrip(_)
LStrip(s) == IF s # <<>> /\ IsWs(Head(s)) THEN LStrip(Tail(s)) ELSE s

RECURSIVE RStrip(_)
RStrip(s) == IF s # <<>> /\ IsWs(s[Len(s)]) THEN RStrip(SubSeq(s, 1, Len(s) - 1)) ELSE s

\* str.strip()
Strip(s) == RStrip(LStrip(s))

RECURSIVE LStripChar(_, _)
LStripChar(s, c) == IF s # <<>> /\ Head(s) = c THEN LStripChar(Tail(s), c) ELSE s

RECURSIVE RStripChar(_, _)
RStripChar(s, c) ==
    IF s # <<>> /\ s[Len(s)] = c THEN RStripChar(SubSeq(s, 1, Len(s) - 1), c) ELSE s

\* str.strip(c) for a single character c
StripChar(s, c) == RStripChar(LStripChar(s, c), c)

\* str.find(c) for a single character, 1-based; 0 stands for Python's -1
Find(s, c) ==
    IF \E i \in 1..Len(s) : s[i] = c
    THEN CHOOSE i \in 1..Len(s) : s[i] = c /\ \A j \in 1..(i - 1) : s[j] # c
    ELSE 0

\* str.startswith(p)
StartsWith(s, p) == Len(s) >= Len(p) /\ SubSeq(s, 1, Len(p)) = p

\* str.endswith(p)
EndsWith(s, p) == Len(s) >= Len(p) /\ SubSeq(s, Len(s) - Len(p) + 1, Len(s)) = p

\* str.replace(pat, ''): one left-to-right pass, non-overlapping matches
RECURSIVE RemoveAll(_, _)
RemoveAll(s, pat) ==
    IF s = <<>> THEN <<>>
    ELSE IF StartsWith(s, pat) THEN RemoveAll(SubSeq(s, Len(pat) + 1, Len(s)), pat)
    ELSE <<Head(s)>> \o RemoveAll(Tail(s), pat)

\* str.split(c): every occurrence of the single character c separates
RECURSIVE SplitOn(_, _)
SplitOn(s, c) ==
    LET i == Find(s, c)
    IN  IF i = 0 THEN <<s>>
        ELSE <<SubSeq(s, 1, i - 1)>> \o SplitOn(SubSeq(s, i + 1, Len(s)), c)

(***************************************************************************)
(* Fixed text                                                              *)
(***************************************************************************)
HTTP      == <<"h","t","t","p",":","/","/">>
HTTPS     == <<"h","t","t","p","s",":","/","/">>
GITHUB    == <<"g","i","t","h","u","b",".","c","o","m">>
DOTGIT    == <<".","g","i","t">>
GH_PREFIX == HTTPS \o GITHUB \o <<"/">>

(***************************************************************************)
(* urllib.parse.urlparse, for a url that starts with http:// or https://:  *)
(* the authority runs up to the first of / ? #, the path up to ? or #.     *)
(***************************************************************************)
FirstOf(s, cs) ==
    IF \E i \in 1..Len(s) : s[i] \in cs
    THEN CHOOSE i \in 1..Len(s) : s[i] \in cs /\ \A j \in 1..(i - 1) : s[j] \notin cs
    ELSE Len(s) + 1

urlparse(url) ==
    LET c    == Find(url, ":")
        rest == SubSeq(url, c + 3, Len(url))          \* after "scheme://"
        e    == FirstOf(rest, {"/", "?", "#"})
        tl   == SubSeq(rest, e, Len(rest))
        q    == FirstOf(tl, {"?", "#"})
    IN  [scheme |-> SubSeq(url, 1, c - 1),
         netloc |-> SubSeq(rest, 1, e - 1),
         path   |-> SubSeq(tl, 1, q - 1)]

(***************************************************************************)
(* parse_repo_input                                                        *)
(***************************************************************************)
ParseError == [ok |-> FALSE, git_url |-> <<>>, repo_name |-> <<>>, subdir |-> <<>>]

ParseOk(u, n, s) == [ok |-> TRUE, git_url |-> u, repo_name |-> n, subdir |-> s]

\* roo.py 731-732: the colon that separates the subdirectory
SplitsAtColon(s) ==
    LET colon_index == Find(s, ":")
    IN  colon_index > 1 /\ s[colon_index - 1] # "p" /\ s[colon_index - 1] # "s"

\* roo.py 747-760: a github.com URL
ParseGithubUrl(parsed_url, subdir) ==
    LET path_parts == SplitOn(StripChar(parsed_url.path, "/"), "/")
    IN  IF Len(path_parts) >= 2
        THEN LET owner == path_parts[1]
                 repo  == RemoveAll(path_parts[2], DOTGIT)
             IN  ParseOk(GH_PREFIX \o owner \o <<"/">> \o repo \o DOTGIT, repo, subdir)
        ELSE ParseError

\* (variant: the pass-through branch appends the suffix as the synthesized forms do)
ParseOtherUrl_AppendsGit(parsed_url, url_to_parse, subdir) ==
    LET path_parts == SplitOn(StripChar(parsed_url.path, "/"), "/")
    IN  IF path_parts # <<>>
        THEN ParseOk(url_to_parse \o DOTGIT,
                     RemoveAll(path_parts[Len(path_parts)], DOTGIT), subdir)
        ELSE ParseError

\* roo.py 761-772: any other host
ParseOtherUrl(parsed_url, url_to_parse, subdir) ==
    LET path_parts == SplitOn(StripChar(parsed_url.path, "/"), "/")
    IN  IF path_parts # <<>>
        THEN ParseOk(url_to_parse, RemoveAll(path_parts[Len(path_parts)], DOTGIT), subdir)
        ELSE ParseError

\* roo.py 779-798: owner/repo shorthand
ParseShorthand(repo_part, subdir) ==
    LET slash == Find(repo_part, "/")
        owner == Strip(SubSeq(repo_part, 1, slash - 1))
        repo  == RemoveAll(Strip(SubSeq(repo_part, slash + 1, Len(repo_part))), DOTGIT)
    IN  IF owner # <<>> /\ repo # <<>>
        THEN ParseOk(GH_PREFIX \o owner \o <<"/">> \o repo \o DOTGIT, repo, subdir)
        ELSE ParseError

\* (variant: a name without an owner is taken as a repository of its own)
parse_repo_input_AcceptsBareName(raw) ==
    LET inp         == Strip(raw)
        colon_index == Find(inp, ":")
        split       == SplitsAtColon(inp)
        repo_part   == IF split THEN SubSeq(inp, 1, colon_index - 1) ELSE inp
        subdir      == IF split THEN SubSeq(inp, colon_index + 1, Len(inp)) ELSE <<>>
    IN  IF inp = <<>> THEN ParseError
        ELSE IF StartsWith(repo_part, HTTP) \/ StartsWith(repo_part, HTTPS)
        THEN LET url_to_parse == IF subdir = <<>> THEN inp ELSE repo_part
                 parsed_url   == urlparse(url_to_parse)
             IN  IF parsed_url.netloc = GITHUB
                 THEN ParseGithubUrl(parsed_url, subdir)
                 ELSE ParseOtherUrl(parsed_url, url_to_parse, subdir)
        ELSE IF Find(repo_part, "/") # 0
        THEN ParseShorthand(repo_part, subdir)
        ELSE ParseOk(GH_PREFIX \o repo_part \o DOTGIT, repo_part, subdir)

parse_repo_input(raw) ==
    LET inp         == Strip(raw)
        colon_index == Find(inp, ":")
        split       == SplitsAtColon(inp)
        repo_part   == IF split THEN SubSeq(inp, 1, colon_index - 1) ELSE inp
        subdir      == IF split THEN SubSeq(inp, colon_index + 1, Len(inp)) ELSE <<>>
    IN  IF inp = <<>> THEN ParseError
        ELSE IF StartsWith(repo_part, HTTP) \/ StartsWith(repo_part, HTTPS)
        THEN LET url_to_parse == IF subdir = <<>> THEN inp ELSE repo_part
                 parsed_url   == urlparse(url_to_parse)
             IN  IF parsed_url.netloc = GITHUB
                 THEN ParseGithubUrl(parsed_url, subdir)
                 ELSE ParseOtherUrl(parsed_url, url_to_parse, subdir)
        ELSE IF Find(repo_part, "/") # 0
        THEN ParseShorthand(repo_part, subdir)
        ELSE ParseError

(***************************************************************************)
(* JSON values.  A dict is a sequence of <<key, value>> pairs with unique  *)
(* keys, in insertion order (Python dict).                                 *)
(***************************************************************************)
JNull    == [t |-> "null"]
JTrue    == [t |-> "true"]
JFalse   == [t |-> "false"]
JNum(n)  == [t |-> "num", v |-> n]
JStr(s)  == [t |-> "str", v |-> s]
JList(x) == [t |-> "list", v |-> x]
JObj(ps) == [t |-> "obj", v |-> ps]

IsDict(v) == v.t = "obj"

\* key in d
DictHas(d, k) == \E i \in 1..Len(d.v) : d.v[i][1] = k

\* d[k]
DictGet(d, k) == d.v[CHOOSE i \in 1..Len(d.v) : d.v[i][1] = k][2]

\* d[k] = x: an existing key keeps its position, a new key goes last
DictSet(d, k, x) ==
    IF DictHas(d, k)
    THEN JObj([i \in 1..Len(d.v) |-> IF d.v[i][1] = k THEN <<k, x>> ELSE d.v[i]])
    ELSE JObj(Append(d.v, <<k, x>>))

\* del d[k]
DictDel(d, k) == JObj(SelectSeq(d.v, LAMBDA p : p[1] # k))

\* list(d.keys())
DictKeys(d) == [i \in 1..Len(d.v) |-> d.v[i][1]]

(***************************************************************************)
(* JSON text: a sequence of tokens, each token a sequence of atoms.  A     *)
(* string token is its content behind a quote atom.  json.dump's layout    *)
(* whitespace (indent=2) is not written out; the reader skips whitespace.  *)
(***************************************************************************)
QUOTE  == "\""
WS_TOK == <<" ">>
Digits == <<"0", "1", "2", "3", "4", "5", "6", "7", "8", "9">>

Tok(a)    == <<a>>
TokStr(s) == <<QUOTE>> \o s

IsStrTok(tk) == tk # <<>> /\ Head(tk) = QUOTE
IsNumTok(tk) == Len(tk) = 1 /\ \E n \in 1..10 : Digits[n] = tk[1]
NumOfTok(tk) == (CHOOSE n \in 1..10 : Digits[n] = tk[1]) - 1

\* json.dump / json.dumps
RECURSIVE Dump(_)
RECURSIVE DumpItems(_)
RECURSIVE DumpMembers(_)
Dump(v) ==
    CASE v.t = "null"  -> <<Tok("null")>>
      [] v.t = "true"  -> <<Tok("true")>>
      [] v.t = "false" -> <<Tok("false")>>
      [] v.t = "num"   -> <<Tok(Digits[v.v + 1])>>
      [] v.t = "str"   -> <<TokStr(v.v)>>
      [] v.t = "list"  -> <<Tok("[")>> \o DumpItems(v.v) \o <<Tok("]")>>
      [] v.t = "obj"   -> <<Tok("{")>> \o DumpMembers(v.v) \o <<Tok("}")>>

DumpItems(xs) ==
    IF xs = <<>> THEN <<>>
    ELSE Dump(Head(xs))
         \o (IF Len(xs) > 1 THEN <<Tok(",")>> \o DumpItems(Tail(xs)) ELSE <<>>)

DumpMembers(ps) ==
    IF ps = <<>> THEN <<>>
    ELSE <<TokStr(Head(ps)[1]), Tok(":")>> \o Dump(Head(ps)[2])
         \o (IF Len(ps) > 1 THEN <<Tok(",")>> \o DumpMembers(Tail(ps)) ELSE <<>>)

\* json.loads: recursive descent; a result is [ok, val, rest]
JFail == [ok |-> FALSE, val |-> JNull, rest |-> <<>>]

JOk(v, rest) == [ok |-> TRUE, val |-> v, rest |-> rest]

RECURSIVE SkipWs(_)
SkipWs(ts) == IF ts # <<>> /\ Head(ts) = WS_TOK THEN SkipWs(Tail(ts)) ELSE ts

RECURSIVE ParseValue(_)
RECURSIVE ParseItems(_, _)
RECURSIVE ParseMembers(_, _)
ParseValue(ts0) ==
    LET ts == SkipWs(ts0)
    IN  IF ts = <<>> THEN JFail
        ELSE LET tk   == Head(ts)
                 rest == Tail(ts)
                 nxt  == SkipWs(rest)
             IN  CASE tk = Tok("null")  -> JOk(JNull, rest)
                   [] tk = Tok("true")  -> JOk(JTrue, rest)
                   [] tk = Tok("false") -> JOk(JFalse, rest)
                   [] IsNumTok(tk)      -> JOk(JNum(NumOfTok(tk)), rest)
                   [] IsStrTok(tk)      -> JOk(JStr(Tail(tk)), rest)
                   [] tk = Tok("[")     ->
                        IF nxt # <<>> /\ Head(nxt) = Tok("]")
                        THEN JOk(JList(<<>>), Tail(nxt))
                        ELSE ParseItems(rest, <<>>)
                   [] tk = Tok("{")     ->
                        IF nxt # <<>> /\ Head(nxt) = Tok("}")
                        THEN JOk(JObj(<<>>), Tail(nxt))
                        ELSE ParseMembers(rest, JObj(<<>>))
                   [] OTHER -> JFail

ParseItems(ts, acc) ==
    LET r == ParseValue(ts)
        a == SkipWs(r.rest)
    IN  IF ~r.ok \/ a = <<>> THEN JFail
        ELSE IF Head(a) = Tok(",") THEN ParseItems(Tail(a), Append(acc, r.val))
        ELSE IF Head(a) = Tok("]") THEN JOk(JList(Append(acc, r.val)), Tail(a))
        ELSE JFail

ParseMembers(ts0, acc) ==
    LET ts == SkipWs(ts0)
    IN  IF ts = <<>> \/ ~IsStrTok(Head(ts)) THEN JFail
        ELSE LET key == Tail(Head(ts))
                 a   == SkipWs(Tail(ts))
             IN  IF a = <<>> \/ Head(a) # Tok(":") THEN JFail
                 ELSE LET r == ParseValue(Tail(a))
                          b == SkipWs(r.rest)
                      IN  IF ~r.ok \/ b = <<>> THEN JFail
                          ELSE IF Head(b) = Tok(",")
                          THEN ParseMembers(Tail(b), DictSet(acc, key, r.val))
                          ELSE IF Head(b) = Tok("}")
                          THEN JOk(DictSet(acc, key, r.val), Tail(b))
                          ELSE JFail

\* json.loads(text): [ok, val]; ok = FALSE stands for json.JSONDecodeError
json_loads(text) ==
    LET r == ParseValue(text)
    IN  IF r.ok /\ SkipWs(r.rest) = <<>>
        THEN [ok |-> TRUE, val |-> r.val]
        ELSE [ok |-> FALSE, val |-> JNull]

(***************************************************************************)
(* The settings file and read_settings / write_settings                    *)
(***************************************************************************)
K_mcpServers == <<"mcpServers">>
K_servers    == <<"servers">>

\* a file: absent, or present with its text; readable = FALSE makes open() raise
NoFile       == [exists |-> FALSE, readable |-> TRUE, text |-> <<>>]
FileOf(text) == [exists |-> TRUE, readable |-> TRUE, text |-> text]
Unreadable(text) == [exists |-> TRUE, readable |-> FALSE, text |-> text]

default_config == JObj(<< <<K_mcpServers, JObj(<<>>)>> >>)

\* what a call gives its caller: a value, or an exception
Returned(v) == [raised |-> FALSE, data |-> v]
Raised      == [raised |-> TRUE, data |-> JNull]

\* (variant: only the mcpServers member of the document is kept)
SettingsFromData_KeepsOnlyServers(data) ==
    IF ~IsDict(data) THEN default_config
    ELSE IF ~DictHas(data, K_mcpServers) \/ ~IsDict(DictGet(data, K_mcpServers))
    THEN default_config
    ELSE JObj(<< <<K_mcpServers, DictGet(data, K_mcpServers)>> >>)

\* roo.py 163-174: the parsed document
SettingsFromData(data) ==
    IF ~IsDict(data) THEN default_config
    ELSE IF ~DictHas(data, K_mcpServers) \/ ~IsDict(DictGet(data, K_mcpServers))
    THEN DictSet(data, K_mcpServers, JObj(<<>>))
    ELSE data

\* (variant: the decode error is not caught)
OnDecodeError_Propagates == Raised

\* roo.py 175-177: except json.JSONDecodeError
OnDecodeError == Returned(default_config)

read_settings(file) ==
    IF ~file.exists THEN Returned(default_config)
    ELSE IF ~file.readable THEN Returned(default_config)       \* except Exception
    ELSE IF SkipWs(file.text) = <<>> THEN Returned(default_config)
    ELSE LET r == json_loads(file.text)
         IN  IF ~r.ok THEN OnDecodeError
             ELSE Returned(SettingsFromData(r.val))

(***************************************************************************)
(* References the parser is exercised on                                   *)
(***************************************************************************)
acme   == <<"a","c","m","e">>
widget == <<"w","i","d","g","e","t">>
tools  == <<"t","o","o","l","s">>
GITLAB == <<"g","i","t","l","a","b",".","c","o","m">>

Owners == {acme, <<"o","p">>, <<"u","s">>}
Repos  == {widget, tools, <<"a","p","p">>, <<"x",".","g","i","t","h","u","b">>,
           <<"r",".","g","i","t">>}
Subdirs == {tools, <<"s","r","c">>, <<"p","k","g","/","a">>}
Hosts  == {HTTPS \o GITHUB, HTTP \o GITHUB, HTTPS \o GITLAB}

ShorthandRefs == {o \o <<"/">> \o r : o \in Owners, r \in Repos}
UrlRefs       == {h \o <<"/">> \o o \o <<"/">> \o r : h \in Hosts, o \in Owners, r \in Repos}
WithSubdir(R) == {r \o <<":">> \o s : r \in R, s \in Subdirs}
BareRefs      == {<<>>, <<" ">>, <<" ", "\t">>, widget, tools, widget \o <<":">> \o tools,
                  <<" ">> \o widget \o <<" ">>}
OddRefs       == {HTTPS \o GITHUB, HTTPS \o GITHUB \o <<"/">> \o acme,
                  HTTPS \o GITLAB, HTTPS \o GITLAB \o <<"/">>,
                  HTTPS \o GITHUB \o <<"/">> \o acme \o <<"/">> \o widget \o <<"/">>,
                  HTTPS \o GITLAB \o <<"/">> \o acme \o <<"/">> \o widget \o <<" ">>,
                  <<"/">> \o widget, acme \o <<"/">>, <<":">> \o tools,
                  acme \o <<"/">> \o DOTGIT,
                  acme \o <<"/", ".", ".">>, acme \o <<"/">> \o widget \o <<"/">> \o tools,
                  GH_PREFIX \o acme \o <<"/">> \o DOTGIT}

ParseInputs == ShorthandRefs \cup UrlRefs \cup WithSubdir(ShorthandRefs)
               \cup WithSubdir(UrlRefs) \cup BareRefs \cup OddRefs

NotParsed == [done |-> FALSE, ok |-> FALSE, git_url |-> <<>>, repo_name |-> <<>>,
              subdir |-> <<>>]

Done(r) == [done |-> TRUE, ok |-> r.ok, git_url |-> r.git_url,
            repo_name |-> r.repo_name, subdir |-> r.subdir]

(***************************************************************************)
(* The working directory of an installed server, as the code looks at it:  *)
(*   files    the paths that exist (each a string)                         *)
(*   pkg      package.json: valid (json.load succeeds), tools (the tools   *)
(*            its prepare/preinstall/postinstall/build scripts mention),   *)
(*            build (scripts has a build entry), bin_dict (bin is an       *)
(*            object), bin (its values in order), main (<<>> or <<path>>)  *)
(*   mcp_env  keys of the env object of mcp.json, in order                 *)
(*   dotenv   what parse_env_example gives for .env.example               *)
(*   readme   what parse_readme_for_env_vars gives for the first README   *)
(***************************************************************************)
F_package_json == <<"package.json">>
F_requirements == <<"requirements.txt">>
F_pyproject    == <<"pyproject.toml">>
F_cargo_toml   == <<"Cargo.toml">>
F_go_mod       == <<"go.mod">>
F_main_go      == <<"main.go">>
F_mcp_json     == <<"mcp.json">>
F_env_example  == <<".env.example">>
F_dist_index   == <<"dist/", "index.js">>

NoPkg == [valid |-> FALSE, tools |-> {}, build |-> FALSE, bin_dict |-> FALSE,
          bin |-> <<>>, main |-> <<>>]

EmptyContent == [files |-> {}, pkg |-> NoPkg, mcp_env |-> <<>>, dotenv |-> <<>>,
                 readme |-> <<>>]

(***************************************************************************)
(* ProjectSetup.PACKAGE_MANAGERS and detect_project_type                   *)
(***************************************************************************)
PACKAGE_MANAGERS == <<
    [name |-> "npm", detect_file |-> F_package_json, command |-> <<"npm", "install">>,
     alternatives |-> <<[command |-> <<"yarn", "install">>, detect_cmd |-> "yarn"],
                        [command |-> <<"pnpm", "install">>, detect_cmd |-> "pnpm"]>>],
    [name |-> "pip", detect_file |-> F_requirements,
     command |-> <<"pip", "install", "-r", "requirements.txt">>,
     alternatives |-> <<[command |-> <<"pip3", "install", "-r", "requirements.txt">>,
                         detect_cmd |-> "pip3"]>>],
    [name |-> "poetry", detect_file |-> F_pyproject, command |-> <<"poetry", "install">>,
     alternatives |-> <<[command |-> <<"pip", "install", "-e", ".">>, detect_cmd |-> "pip"]>>],
    [name |-> "cargo", detect_file |-> F_cargo_toml, command |-> <<"cargo", "build">>,
     alternatives |-> <<>>],
    [name |-> "go", detect_file |-> F_go_mod, command |-> <<"go", "mod", "download">>,
     alternatives |-> <<>>] >>

\* the detect_file of every descriptor
MarkerFiles == {PACKAGE_MANAGERS[i].detect_file : i \in 1..Len(PACKAGE_MANAGERS)}

\* setup_config: None, a dict with 'error', or a dict with 'command'
NoConfig == [kind |-> "none", type |-> "", command |-> <<>>, using_alternative |-> FALSE]

ConfigError(pm) ==
    [kind |-> "error", type |-> pm, command |-> <<>>, using_alternative |-> FALSE]

ConfigOk(pm, cmd, alt) ==
    [kind |-> "ok", type |-> pm, command |-> cmd, using_alternative |-> alt]

\* a variant that falls back to the primary command when nothing resolves
DetectAlternative_FallsBackToPrimary(config, tl) ==
    LET alts == config.alternatives
        hits == {i \in 1..Len(alts) : alts[i].detect_cmd \in tl}
    IN  IF hits = {} THEN ConfigOk(config.name, config.command, FALSE)
        ELSE LET i == CHOOSE j \in hits : \A k \in hits : j <= k
             IN  ConfigOk(config.name, alts[i].command, TRUE)

\* roo.py 391-406: the primary tool is missing
DetectAlternative(config, tl) ==
    LET alts == config.alternatives
        hits == {i \in 1..Len(alts) : alts[i].detect_cmd \in tl}
    IN  IF hits = {} THEN ConfigError(config.name)
        ELSE LET i == CHOOSE j \in hits : \A k \in hits : j <= k
             IN  ConfigOk(config.name, alts[i].command, TRUE)

RECURSIVE DetectFrom(_, _, _)
DetectFrom(i, files, tl) ==
    IF i > Len(PACKAGE_MANAGERS) THEN NoConfig
    ELSE LET config == PACKAGE_MANAGERS[i]
         IN  IF config.detect_file \in files
             THEN IF Head(config.command) \in tl
                  THEN ConfigOk(config.name, config.command, FALSE)
                  ELSE DetectAlternative(config, tl)
             ELSE DetectFrom(i + 1, files, tl)

\* (variant: an ecosystem none of whose tools resolves is passed over when a
\* later one can be installed)
detect_project_type_PrefersAvailable(content, tl) ==
    LET r    == DetectFrom(1, content.files, tl)
        rest == content.files
                  \ {PACKAGE_MANAGERS[i].detect_file :
                        i \in {j \in 1..Len(PACKAGE_MANAGERS) :
                                 PACKAGE_MANAGERS[j].name = r.type}}
    IN  IF r.kind = "error" /\ DetectFrom(1, rest, tl).kind = "ok"
        THEN DetectFrom(1, rest, tl) ELSE r

\* roo.py 369-409
detect_project_type(content, tl) == DetectFrom(1, content.files, tl)

NoDetectCall == [done |-> FALSE, files |-> {}, tools |-> {}, returned |-> NoConfig]

\* show_logs has not been called and no log file exists.  Log lines are
\* numbered in the order they are emitted.
\*   exists   ~/.roo/logs/roo.log exists      log      its lines
\*   emitted  lines emitted so far            start    emitted when following began
\*   rolled   the file show_logs holds open has been renamed to a backup
\*   held     the lines of that file          pos      lines of it read so far
\*   tailed   the tail printed first          printed  lines printed by the loop
NoFollow == [pc |-> "idle", exists |-> FALSE, log |-> <<>>, emitted |-> 0, start |-> 0,
             rolled |-> FALSE, held |-> <<>>, pos |-> 0, tailed |-> <<>>,
             printed |-> <<>>, looped |-> FALSE, interrupted |-> FALSE,
             returned |-> "none"]

(***************************************************************************)
(* check_and_install_tool and run_command: the set of possible outcomes.   *)
(* tl is the set of tools that resolve on the search path.                 *)
(***************************************************************************)
INSTALL_COMMANDS == {"bun", "npm", "tsc", "webpack", "git"}
NOT_INSTALLABLE  == {"git"}

\* ok = what the call returns, ran = the install command was run, exit = how
\* it exited ("none" when it was not run), tools = what resolves afterwards
ToolOutcome(ok, ran, tl) == [ok |-> ok, ran |-> ran, tools |-> tl, exit |-> "none"]

\* roo.py 494-523: the install command exited with code; the tool is looked
\* up again only after exit code 0
InstallOutcome(tool, code, tl) ==
    [ok |-> code = "zero" /\ tool \in tl, ran |-> TRUE, tools |-> tl, exit |-> code]

\* (variant: exit code 0 is taken as success without looking the tool up)
ConfirmedInstall_TrustsExitCode(tool, tl, win) ==
    IF win /\ "npm" \notin tl
    THEN {ToolOutcome(FALSE, FALSE, tl)}
    ELSE {InstallOutcome(tool, "nonzero", tl)}
         \cup (IF "npm" \in tl
               THEN {InstallOutcome(tool, "nonzero", tl \cup {tool}),
                     [InstallOutcome(tool, "zero", tl) EXCEPT !.ok = TRUE],
                     InstallOutcome(tool, "zero", tl \cup {tool})}
               ELSE {})

\* roo.py 468-546: the user confirmed the prompt.  Every install command is
\* an npm command: without npm it is not run on Windows and exits non-zero
\* elsewhere; with npm it may exit with either code, having put the tool on
\* the search path or not.
ConfirmedInstall(tool, tl, win) ==
    IF win /\ "npm" \notin tl
    THEN {ToolOutcome(FALSE, FALSE, tl)}                 \* roo.py 479-482
    ELSE {InstallOutcome(tool, "nonzero", tl)}
         \cup (IF "npm" \in tl
               THEN {InstallOutcome(tool, "nonzero", tl \cup {tool}),
                     InstallOutcome(tool, "zero", tl),
                     InstallOutcome(tool, "zero", tl \cup {tool})}
               ELSE {})

\* what the prompt of roo.py 459 does: the user confirms, declines (the
\* default), or Confirm.ask raises, as it does without a terminal
PromptAnswers == {"yes", "no", "raises"}

\* (variant: a prompt that raises counts as a confirmation)
CheckAndInstall_InstallsOnPromptError(tool, tl, win, answer) ==
    IF tool \in tl THEN {ToolOutcome(TRUE, FALSE, tl)}
    ELSE IF tool \notin INSTALL_COMMANDS \/ tool \in NOT_INSTALLABLE
    THEN {ToolOutcome(FALSE, FALSE, tl)}
    ELSE IF answer \in {"yes", "raises"} THEN ConfirmedInstall(tool, tl, win)
    ELSE {ToolOutcome(FALSE, FALSE, tl)}

\* roo.py 421-558: check_and_install_tool when the prompt, if it is
\* reached, is answered by answer
CheckAndInstall(tool, tl, win, answer) ==
    IF tool \in tl THEN {ToolOutcome(TRUE, FALSE, tl)}                \* roo.py 431-433
    ELSE IF tool \notin INSTALL_COMMANDS \/ tool \in NOT_INSTALLABLE
    THEN {ToolOutcome(FALSE, FALSE, tl)}                  \* roo.py 450-455, 552-558
    ELSE IF answer = "yes" THEN ConfirmedInstall(tool, tl, win)
    ELSE {ToolOutcome(FALSE, FALSE, tl)}                  \* roo.py 462-465, 547-551

check_and_install_tool(tool, tl, win) ==
    UNION {CheckAndInstall(tool, tl, win, a) : a \in PromptAnswers}

\* run_command(cmd): tool_ok = what check_and_install_tool reported,
\* started = subprocess.run was reached, ok = the process exited with 0,
\* error = the exception run_command raised
RunOutcome(o, started, ok, error) ==
    [tool_ok |-> o.ok, tool_ran |-> o.ran, tool_exit |-> o.exit, tools |-> o.tools,
     started |-> started, ok |-> ok, error |-> error]

\* (variant: the process is started whatever the check reported)
RunChecked_IgnoresCheck(o) ==
    {RunOutcome(o, TRUE, TRUE, "none"), RunOutcome(o, TRUE, FALSE, "CalledProcessError")}

\* roo.py 590-660: what follows the check
RunChecked(o) ==
    IF o.ok
    THEN {RunOutcome(o, TRUE, TRUE, "none"),
          RunOutcome(o, TRUE, FALSE, "CalledProcessError")}
    ELSE {RunOutcome(o, FALSE, FALSE, "FileNotFoundError")}

\* roo.py 573-660: run_command when the prompt is answered by answer
RunCommand(cmd, tl, win, answer) ==
    IF cmd = <<>>
    THEN {RunOutcome(ToolOutcome(FALSE, FALSE, tl), FALSE, FALSE, "ValueError")}
    ELSE UNION {RunChecked(o) : o \in CheckAndInstall(Head(cmd), tl, win, answer)}

run_command(cmd, tl, win) ==
    UNION {RunCommand(cmd, tl, win, a) : a \in PromptAnswers}

\* the processes one call has started, in order
\* (dest: what a clone found at its destination; "" for other commands)
ToolCmd(tool) == [kind |-> "tool", cmd |-> <<"npm", "install", "-g", tool>>, dest |-> ""]

Started(log, exe, o, k, cmd, dest) ==
    (IF o.tool_ran THEN Append(log, ToolCmd(exe)) ELSE log)
    \o (IF o.started
        THEN <<[kind |-> k, cmd |-> cmd, dest |-> dest,
                exit |-> IF o.ok THEN "zero" ELSE "nonzero", stderr |-> ""]>>
        ELSE <<>>)

\* the same log, with what the last process wrote to stderr
WithStderr(log, o, text) ==
    IF o.started THEN [log EXCEPT ![Len(log)].stderr = text] ELSE log

CHMOD_ERROR == "'chmod' is not recognized"

\* (variant: the chmod failure is tolerated on every host)
ChmodTolerated_AnyHost(win, stderr, type) == stderr = CHMOD_ERROR /\ type = "npm"

\* roo.py 1259-1262: the failure of a build that is only warned about
ChmodTolerated(win, stderr, type) == win /\ stderr = CHMOD_ERROR /\ type = "npm"

(***************************************************************************)
(* detect_run_command: a command list, <<>> for None                       *)
(***************************************************************************)
S_stdio == <<"stdio">>

FirstIn(paths, files) ==
    LET hits == {i \in 1..Len(paths) : paths[i] \in files}
    IN  IF hits = {} THEN <<>>
        ELSE <<paths[CHOOSE j \in hits : \A k \in hits : j <= k]>>

common_node_files   == <<F_dist_index, <<"index.js">>, <<"src/", "index.js">>, <<"server.js">>>>
common_python_files == <<<<"main.py">>, <<"app.py">>, <<"server.py">>, <<"run.py">>>>

\* roo.py 199-235
NodeRunCommand(c) ==
    IF F_package_json \notin c.files \/ ~c.pkg.valid THEN <<>>
    ELSE LET bin  == IF c.pkg.bin_dict THEN FirstIn(c.pkg.bin, c.files) ELSE <<>>
             main == FirstIn(c.pkg.main, c.files)
             comm == FirstIn(common_node_files, c.files)
             hit  == IF bin # <<>> THEN bin ELSE IF main # <<>> THEN main ELSE comm
         IN  IF hit = <<>> THEN <<>> ELSE <<<<"node">>, hit[1], S_stdio>>

\* roo.py 237-248
PythonRunCommand(c, tl) ==
    LET hit == FirstIn(common_python_files, c.files)
    IN  IF "python3" \in tl THEN <<<<"python3">>, hit[1], S_stdio>>
        ELSE IF "python" \in tl THEN <<<<"python">>, hit[1], S_stdio>>
        ELSE <<>>

\* roo.py 250-282
GoCargoRunCommand(c, tl) ==
    IF F_go_mod \in c.files
    THEN IF "go" \in tl THEN <<<<"go">>, <<"run">>, <<".">>, S_stdio>> ELSE <<>>
    ELSE IF F_main_go \in c.files
    THEN IF "go" \in tl THEN <<<<"go">>, <<"run">>, F_main_go, S_stdio>> ELSE <<>>
    ELSE IF F_cargo_toml \in c.files /\ "cargo" \in tl
    THEN <<<<"cargo">>, <<"run">>, <<"--">>, S_stdio>>
    ELSE <<>>

detect_run_command(c, tl) ==
    IF NodeRunCommand(c) # <<>> THEN NodeRunCommand(c)
    ELSE IF FirstIn(common_python_files, c.files) # <<>> THEN PythonRunCommand(c, tl)
    ELSE GoCargoRunCommand(c, tl)

NoRunDetect == [done |-> FALSE, content |-> EmptyContent, tools |-> {}, returned |-> <<>>]

(***************************************************************************)
(* install_mcp: paths, the build decision, the entry, the env requirements *)
(***************************************************************************)
\* get_install_dir(scope, repo_name), for the one scope modelled
get_install_dir(repo_name) == <<".roo/mcps/">> \o repo_name

\* roo.py 1077
WorkingDir(p) ==
    IF p.subdir # <<>> THEN get_install_dir(p.repo_name) \o <<"/">> \o p.subdir
    ELSE get_install_dir(p.repo_name)

\* roo.py 1204-1206
GoOutputPath(p, win) ==
    WorkingDir(p) \o <<"/">> \o p.repo_name \o <<"_server">>
    \o (IF win THEN <<".exe">> ELSE <<>>)

HasDistOrBuild(path) == \E i \in 1..Len(path) : path[i] \in {"dist/", "build/"}

\* roo.py 1219-1223: <<>> for None
EntryPoint(pkg) ==
    IF pkg.bin_dict THEN (IF pkg.bin # <<>> THEN <<pkg.bin[1]>> ELSE <<>>)
    ELSE pkg.main

\* (variant: every npm project with a build script is built)
BuildCommand_AnyBuildScript(cfg, c) ==
    IF cfg.type = "go" THEN <<"go", "build">>
    ELSE IF cfg.type = "npm" /\ c.pkg.valid /\ c.pkg.build
    THEN <<Head(cfg.command), "run", "build">>
    ELSE <<>>

\* roo.py 1195-1231: the build command, <<>> when no build step is needed
BuildCommand(cfg, c) ==
    IF cfg.type = "go" THEN <<"go", "build">>
    ELSE IF cfg.type = "npm" /\ c.pkg.valid /\ c.pkg.build
            /\ EntryPoint(c.pkg) # <<>> /\ HasDistOrBuild(EntryPoint(c.pkg)[1])
    THEN <<Head(cfg.command), "run", "build">>
    ELSE <<>>

\* roo.py 1106-1124: the tools the npm pre-check asks for, sorted
ToolOrder == <<"bun", "node-gyp", "tsc", "webpack">>

PrecheckTools(c) ==
    IF c.pkg.valid THEN SelectSeq(ToolOrder, LAMBDA t : t \in c.pkg.tools) ELSE <<>>

\* roo.py 1365-1374: metadata type from the command
StdioType(run_command_list, built_go) ==
    IF built_go THEN <<"go-stdio">>
    ELSE IF run_command_list[1] = <<"node">> THEN <<"node-stdio">>
    ELSE IF run_command_list[1] \in {<<"python3">>, <<"python">>} THEN <<"python-stdio">>
    ELSE IF run_command_list[1] = <<"cargo">> THEN <<"rust-stdio">>
    ELSE S_stdio

PLACEHOLDER == <<"# TODO: Specify command">>

InstallTime(n) == <<"T", Digits[n + 1]>>

\* (variant: without a run command the entry has an empty command)
McpEntry_NoPlaceholder(run_command_list, built_go, p, n) ==
    JObj(<<
        <<<<"command">>, JStr(IF run_command_list # <<>> THEN run_command_list[1]
                              ELSE <<>>)>>,
        <<<<"args">>, JList(IF run_command_list # <<>>
                            THEN [i \in 1..(Len(run_command_list) - 1)
                                    |-> JStr(run_command_list[i + 1])]
                            ELSE <<>>)>>,
        <<<<"cwd">>, JStr(WorkingDir(p))>>,
        <<<<"env">>, JObj(<<>>)>>,
        <<<<"metadata">>, JObj(<<
            <<<<"name">>, JStr(p.repo_name)>>,
            <<<<"type">>, JStr(IF run_command_list # <<>>
                               THEN StdioType(run_command_list, built_go) ELSE S_stdio)>>,
            <<<<"source">>, JStr(p.git_url)>>,
            <<<<"installTime">>, JStr(InstallTime(n))>>,
            <<<<"subdir">>, IF p.subdir # <<>> THEN JStr(p.subdir) ELSE JNull>> >>)>>,
        <<<<"disabled">>, JFalse>>,
        <<<<"alwaysAllow">>, JList(<<>>)>>,
        <<<<"initializationOptions">>, JObj(<<>>)>>,
        <<<<"settings">>, JObj(<<>>)>> >>)

\* roo.py 1340-1374
McpEntry(run_command_list, built_go, p, n) ==
    JObj(<<
        <<<<"command">>, JStr(IF run_command_list # <<>> THEN run_command_list[1]
                              ELSE PLACEHOLDER)>>,
        <<<<"args">>, JList(IF run_command_list # <<>>
                            THEN [i \in 1..(Len(run_command_list) - 1)
                                    |-> JStr(run_command_list[i + 1])]
                            ELSE <<>>)>>,
        <<<<"cwd">>, JStr(WorkingDir(p))>>,
        <<<<"env">>, JObj(<<>>)>>,
        <<<<"metadata">>, JObj(<<
            <<<<"name">>, JStr(p.repo_name)>>,
            <<<<"type">>, JStr(IF run_command_list # <<>>
                               THEN StdioType(run_command_list, built_go) ELSE S_stdio)>>,
            <<<<"source">>, JStr(p.git_url)>>,
            <<<<"installTime">>, JStr(InstallTime(n))>>,
            <<<<"subdir">>, IF p.subdir # <<>> THEN JStr(p.subdir) ELSE JNull>> >>)>>,
        <<<<"disabled">>, JFalse>>,
        <<<<"alwaysAllow">>, JList(<<>>)>>,
        <<<<"initializationOptions">>, JObj(<<>>)>>,
        <<<<"settings">>, JObj(<<>>)>> >>)

READMES == {<<"README.md">>, <<"README.rst">>, <<"README">>}

\* (variant: a README is preferred to .env.example)
EnvRequirements_ReadmeFirst(c) ==
    IF F_mcp_json \in c.files /\ c.mcp_env # <<>> THEN c.mcp_env
    ELSE IF c.files \cap READMES # {} /\ c.readme # <<>> THEN c.readme
    ELSE IF F_env_example \in c.files THEN c.dotenv
    ELSE <<>>

\* roo.py 1391-1436: mcp.json, then .env.example, then the first README
EnvRequirements(c) ==
    IF F_mcp_json \in c.files /\ c.mcp_env # <<>> THEN c.mcp_env
    ELSE IF F_env_example \in c.files /\ c.dotenv # <<>> THEN c.dotenv
    ELSE IF c.files \cap READMES # {} THEN c.readme
    ELSE <<>>

\* roo.py 1446-1461: the prompts; an empty answer sets nothing
RECURSIVE EnvVarsToSet(_, _, _)
EnvVarsToSet(req, answers, acc) ==
    IF req = <<>> THEN acc
    ELSE EnvVarsToSet(Tail(req), Tail(answers),
                      IF Head(answers) # <<>>
                      THEN DictSet(acc, Head(req), JStr(Head(answers))) ELSE acc)

\* (variant: an entry already registered under the name is kept)
StoreEntry_KeepsExisting(data, name, entry) ==
    IF DictHas(DictGet(data, K_mcpServers), name) THEN data
    ELSE DictSet(data, K_mcpServers, DictSet(DictGet(data, K_mcpServers), name, entry))

\* roo.py 1475: settings_data["mcpServers"][repo_name] = mcp_entry
StoreEntry(data, name, entry) ==
    DictSet(data, K_mcpServers, DictSet(DictGet(data, K_mcpServers), name, entry))

\* (variant: the legacy list is left in the document)
DropLegacy_KeepsList(data) == data

\* roo.py 1478-1480
DropLegacy(data) == IF DictHas(data, K_servers) THEN DictDel(data, K_servers) ELSE data

(***************************************************************************)
(* Settings files read_settings is exercised on                            *)
(***************************************************************************)
K_theme   == <<"theme">>
other_srv == <<"o","t","h","e","r">>

SampleEntry == JObj(<< <<<<"command">>, JStr(<<"node">>)>>,
                       <<<<"args">>, JList(<<JStr(<<"stdio">>)>>)>> >>)

\* values found under the mcpServers key: objects, and values of a wrong type
GoodServers == {JObj(<<>>), JObj(<< <<other_srv, SampleEntry>> >>)}
BadServers  == {JList(<<>>), JList(<<SampleEntry>>), JStr(<<"x">>), JNull, JNum(1), JTrue}

LegacyList == JList(<<JStr(<<"old">>)>>)

\* the members before and after the mcpServers member
Befores == {<<>>, << <<K_theme, JStr(<<"dark">>)>> >>}
Afters  == {<<>>, << <<K_servers, LegacyList>> >>}

ObjectsWith(S) == {JObj(b \o << <<K_mcpServers, m>> >> \o a) : b \in Befores, a \in Afters,
                                                              m \in S}
ObjectsWithout == {JObj(b \o a) : b \in Befores, a \in Afters}
NonObjects     == {JList(<<>>), JList(<<JNum(1)>>), JStr(K_mcpServers), JNum(0), JNull,
                   JTrue, JFalse}

FullDoc == Dump(JObj(<< <<K_theme, JStr(<<"dark">>)>>,
                        <<K_mcpServers, JObj(<< <<other_srv, SampleEntry>> >>)>> >>))

BlankTexts     == {<<>>, <<WS_TOK>>, <<WS_TOK, WS_TOK>>}
MalformedTexts == {SubSeq(FullDoc, 1, n) : n \in 1..(Len(FullDoc) - 1)}
                  \cup {FullDoc \o FullDoc, <<Tok("}")>>, <<Tok("{"), Tok("}"), Tok("}")>>,
                        <<Tok("["), Tok(","), Tok("]")>>, <<Tok("nul")>>,
                        <<Tok("{"), TokStr(K_mcpServers), Tok("}")>>,
                        <<Tok("{"), Tok("1"), Tok(":"), Tok("1"), Tok("}")>>}

Padded(text) == <<WS_TOK>> \o text \o <<WS_TOK>>

WellFormedDocs == ObjectsWith(GoodServers) \cup ObjectsWith(BadServers)
                  \cup ObjectsWithout \cup NonObjects

SettingsFiles ==
    {NoFile} \cup {Unreadable(FullDoc)}
    \cup {FileOf(t) : t \in BlankTexts \cup MalformedTexts}
    \cup {FileOf(Dump(d)) : d \in WellFormedDocs}
    \cup {FileOf(Padded(Dump(d))) : d \in NonObjects \cup ObjectsWithout}

\* registries handed to write_settings: values of every JSON kind in
\* the entries
node == <<"node">>

RT_Values == {JNull, JTrue, JFalse, JNum(0), JNum(9), JStr(<<>>), JStr(<<"x">>),
              JList(<<>>), JList(<<JStr(<<"stdio">>), JNum(1), JNull>>),
              JObj(<<>>), JObj(<< <<<<"TOKEN">>, JStr(<<"v1">>)>>,
                                  <<<<"nested">>, JObj(<< <<<<"k">>, JList(<<>>)>> >>)>> >>)}

RT_Entries == {JObj(<<>>), SampleEntry}
              \cup {JObj(<< <<<<"command">>, JStr(node)>>, <<<<"env">>, v>> >>) : v \in RT_Values}

RT_Servers == {JObj(<<>>)}
              \cup {JObj(<< <<widget, e>> >>) : e \in RT_Entries}
              \cup {JObj(<< <<widget, e>>, <<other_srv, SampleEntry>> >>) : e \in RT_Entries}

RoundTripRegistries ==
    {JObj(b \o << <<K_mcpServers, m>> >> \o a) : b \in Befores, a \in Afters, m \in RT_Servers}

NotLoaded == [done |-> FALSE, raised |-> FALSE, data |-> JNull]

Loaded(r) == [done |-> TRUE, raised |-> r.raised, data |-> r.data]

(***************************************************************************)
(* The three sources of env requirements, read from the files themselves.  *)
(* A working directory, as far as discovery looks at it, is                *)
(*   mcp_json     the file mcp.json (a settings-file record)               *)
(*   env_example  [exists, readable, lines]: .env.example, line by line,   *)
(*                each line a sequence of characters                       *)
(*   readmes      for each README name, [exists, readable, blocks]: the    *)
(*                contents of its ```json blocks, each a JSON text         *)
(***************************************************************************)
K_env == <<"env">>

Upper == {"A","B","C","D","E","F","G","H","I","J","K","L","M",
          "N","O","P","Q","R","S","T","U","V","W","X","Y","Z"}
Lower == {"a","b","c","d","e","f","g","h","i","j","k","l","m",
          "n","o","p","q","r","s","t","u","v","w","x","y","z"}

\* [a-zA-Z_] and [a-zA-Z0-9_]
IsNameStart(c) == c \in Upper \cup Lower \cup {"_"}
IsNameChar(c)  == IsNameStart(c) \/ \E i \in 1..10 : Digits[i] = c

\* length of the longest prefix of s made of name characters
RECURSIVE NamePrefix(_)
NamePrefix(s) == IF s # <<>> /\ IsNameChar(Head(s)) THEN 1 + NamePrefix(Tail(s)) ELSE 0

\* roo.py 914-920: one line of .env.example, <<>> or <<name>>
ParseEnvLine(raw) ==
    LET line == Strip(raw)
        n    == IF line # <<>> /\ IsNameStart(Head(line)) THEN NamePrefix(line) ELSE 0
        rest == LStrip(SubSeq(line, n + 1, Len(line)))
    IN  IF line = <<>> \/ Head(line) = "#" THEN <<>>
        ELSE IF n > 0 /\ rest # <<>> /\ Head(rest) = "=" THEN <<SubSeq(line, 1, n)>>
        ELSE <<>>

RECURSIVE ParseEnvLines(_)
ParseEnvLines(lines) ==
    IF lines = <<>> THEN <<>>
    ELSE ParseEnvLine(Head(lines)) \o ParseEnvLines(Tail(lines))

\* roo.py 907-924; a file that cannot be read gives []
parse_env_example(file) ==
    IF ~file.exists \/ ~file.readable THEN <<>> ELSE ParseEnvLines(file.lines)

\* roo.py 1402-1416: the keys of the env object of mcp.json
McpJsonEnvKeys(file) ==
    IF ~file.exists \/ ~file.readable THEN <<>>
    ELSE LET r == json_loads(file.text)
         IN  IF r.ok /\ IsDict(r.val) /\ DictHas(r.val, K_env)
                /\ IsDict(DictGet(r.val, K_env))
             THEN DictKeys(DictGet(r.val, K_env))
             ELSE <<>>

\* roo.py 928-941: _find_env_keys_recursive, as the set it adds to found_keys
RECURSIVE find_env_keys_recursive(_)
RECURSIVE FindInAll(_)
find_env_keys_recursive(data) ==
    IF data.t = "obj"
    THEN (IF DictHas(data, K_env) /\ IsDict(DictGet(data, K_env))
          THEN {DictKeys(DictGet(data, K_env))[i] : i \in 1..Len(DictGet(data, K_env).v)}
          ELSE {})
         \cup FindInAll([i \in 1..Len(data.v) |-> data.v[i][2]])
    ELSE IF data.t = "list" THEN FindInAll(data.v)
    ELSE {}

FindInAll(values) ==
    IF values = <<>> THEN {}
    ELSE find_env_keys_recursive(Head(values)) \cup FindInAll(Tail(values))

\* (variant: only an env object at the top of the block is looked at)
BlockKeys_TopLevelOnly(block) ==
    IF SkipWs(block) = <<>> THEN {}
    ELSE LET r == json_loads(block)
         IN  IF r.ok /\ IsDict(r.val) /\ DictHas(r.val, K_env)
                /\ IsDict(DictGet(r.val, K_env))
             THEN {DictGet(r.val, K_env).v[i][1] : i \in 1..Len(DictGet(r.val, K_env).v)}
             ELSE {}

\* roo.py 955-967: one ```json block; a block that is blank or does not
\* parse adds nothing
BlockKeys(block) ==
    IF SkipWs(block) = <<>> THEN {}
    ELSE LET r == json_loads(block)
         IN  IF r.ok THEN find_env_keys_recursive(r.val) ELSE {}

\* the order of str comparison on the names used, smallest first
NameOrder == <<<<"API_KEY">>, <<"OTHER">>, <<"X">>, <<"Y">>, <<"Z">>, <<"a">>, <<"env">>>>

\* sorted(list(variables))
Sorted(S) == SelectSeq(NameOrder, LAMBDA n : n \in S)

\* roo.py 944-977
parse_readme_for_env_vars(file) ==
    IF ~file.exists THEN <<>>
    ELSE IF ~file.readable THEN Sorted({})
    ELSE Sorted(UNION {BlockKeys(file.blocks[i]) : i \in 1..Len(file.blocks)})

\* the README names in the order they are looked for (roo.py 1395)
README_NAMES == <<<<"README.md">>, <<"README.rst">>, <<"README">>>>

NoLines  == [exists |-> FALSE, readable |-> TRUE, lines |-> <<>>]
NoReadme == [exists |-> FALSE, readable |-> TRUE, blocks |-> <<>>]

NoWorkdir == [mcp_json |-> NoFile, env_example |-> NoLines,
              readmes |-> [n \in READMES |-> NoReadme]]

\* roo.py 1395-1399: the first README that exists, NoReadme if none does
FirstReadme(w) ==
    LET hit == FirstIn(README_NAMES, {n \in READMES : w.readmes[n].exists})
    IN  IF hit = <<>> THEN NoReadme ELSE w.readmes[hit[1]]

\* the working directory as the install steps see it
ContentOf(w) ==
    [files   |-> (IF w.mcp_json.exists THEN {F_mcp_json} ELSE {})
                 \cup (IF w.env_example.exists THEN {F_env_example} ELSE {})
                 \cup {n \in READMES : w.readmes[n].exists},
     pkg     |-> NoPkg,
     mcp_env |-> McpJsonEnvKeys(w.mcp_json),
     dotenv  |-> parse_env_example(w.env_example),
     readme  |-> parse_readme_for_env_vars(FirstReadme(w))]

\* roo.py 1401-1436: the files discovery opens, in order
EnvSourcesRead(c) ==
    (IF F_mcp_json \in c.files THEN <<F_mcp_json>> ELSE <<>>)
    \o (IF ~(F_mcp_json \in c.files /\ c.mcp_env # <<>>) /\ F_env_example \in c.files
        THEN <<F_env_example>> ELSE <<>>)
    \o (IF ~(F_mcp_json \in c.files /\ c.mcp_env # <<>>)
           /\ ~(F_env_example \in c.files /\ c.dotenv # <<>>)
        THEN FirstIn(README_NAMES, c.files) ELSE <<>>)

NotDiscovered == [done |-> FALSE, op |-> "", vars |-> <<>>, read |-> <<>>]

\* no check_and_install_tool or run_command call has been made on its own
NoToolCall == [fn |-> "none"]

(***************************************************************************)
(* config_loader.merge_configs.  A config is a JSON value; the result is   *)
(* Returned(dict), or Raised when a dict method is called on a value that  *)
(* is not a dict.                                                          *)
(***************************************************************************)
\* d.update(e) on two dicts, from the items of e
RECURSIVE UpdateFrom(_, _)
UpdateFrom(d, ps) ==
    IF ps = <<>> THEN d
    ELSE UpdateFrom(DictSet(d, Head(ps)[1], Head(ps)[2]), Tail(ps))

DictUpdate(d, e) == UpdateFrom(d, e.v)

\* config_loader.py 103-105: the loop over config["env"].items()
RECURSIVE MergeEnvGroups(_, _)
MergeEnvGroups(renv, ps) ==
    IF ps = <<>> THEN Returned(renv)
    ELSE LET group == Head(ps)[1]
             envs  == Head(ps)[2]
         IN  IF ~IsDict(envs) THEN MergeEnvGroups(renv, Tail(ps))
             ELSE IF ~IsDict(renv) THEN Raised                   \* no setdefault
             ELSE LET cur == IF DictHas(renv, group) THEN DictGet(renv, group)
                             ELSE JObj(<<>>)
                  IN  IF ~IsDict(cur) THEN Raised                \* no update
                      ELSE MergeEnvGroups(DictSet(renv, group, DictUpdate(cur, envs)),
                                          Tail(ps))

\* config_loader.py 98-107: one turn of the loop over the configs
MergeStep(res, config) ==
    IF ~IsDict(config) THEN Returned(res)
    ELSE IF DictHas(config, K_env) /\ DictHas(res, K_env)
    THEN IF ~IsDict(DictGet(config, K_env)) THEN Raised           \* no items
         ELSE LET r == MergeEnvGroups(DictGet(res, K_env), DictGet(config, K_env).v)
              IN  IF r.raised THEN Raised
                  ELSE Returned(DictSet(res, K_env, r.data))
    ELSE Returned(DictUpdate(res, config))

RECURSIVE MergeFrom(_, _)
MergeFrom(res, cs) ==
    IF cs = <<>> THEN Returned(res)
    ELSE LET r == MergeStep(res, Head(cs))
         IN  IF r.raised THEN Raised ELSE MergeFrom(r.data, Tail(cs))

merge_configs(cs) == MergeFrom(JObj(<<>>), cs)

NotMerged == [done |-> FALSE, raised |-> FALSE, data |-> JNull]

(***************************************************************************)
(* Two install_mcp calls on one settings file.  Each call is a process of  *)
(* its own; nothing in roo.py locks the file between the read at 1320 and  *)
(* the write at 1484, so the steps of the two calls interleave freely.     *)
(***************************************************************************)
gadget == <<"g","a","d","g","e","t">>

RaceRuns == {1, 2}

RaceRef(r) == IF r = 1 THEN acme \o <<"/">> \o widget ELSE acme \o <<"/">> \o gadget

RaceName(r) == parse_repo_input(RaceRef(r)).repo_name

\* roo.py 1340-1380 and 1472: the entry of a project without a run command
\* and without env requirements
RaceEntry(r) == McpEntry(<<>>, FALSE, parse_repo_input(RaceRef(r)), r)

\* a call that has not reached the settings stage
IdleRun == [pc |-> "idle", read |-> JNull, data |-> JNull, result |-> "none", wrote |-> 0]

NoRuns == [r \in RaceRuns |-> IdleRun]

\* roo.py 186-187: the file was opened with mode 'w', so what json.dump
\* wrote lands at offset 0, over what another writer has put there since
WriteAt0(old, text) ==
    text \o (IF Len(old) > Len(text) THEN SubSeq(old, Len(text) + 1, Len(old)) ELSE <<>>)

(***************************************************************************)
(* What install_mcp is exercised on                                        *)
(***************************************************************************)
MaxCalls == 2       \* install_mcp calls in one behaviour
MaxCut   == 1       \* longest prefix a failed write leaves behind

PipeRefs == {acme \o <<"/">> \o widget, <<>>, <<" ">>, widget, widget \o <<":">> \o tools}

PipeNames == {parse_repo_input(r).repo_name : r \in {q \in PipeRefs : parse_repo_input(q).ok}}

C_script == [EmptyContent EXCEPT !.files = {<<"main.py">>}]

C_node == [files |-> {F_package_json, F_dist_index, F_mcp_json},
           pkg |-> [valid |-> TRUE, tools |-> {"tsc"}, build |-> TRUE, bin_dict |-> FALSE,
                    bin |-> <<>>, main |-> <<F_dist_index>>],
           mcp_env |-> <<<<"TOKEN">>>>, dotenv |-> <<>>, readme |-> <<>>]

C_go == [files |-> {F_go_mod, F_main_go, <<"main.py">>, F_env_example}, pkg |-> NoPkg,
         mcp_env |-> <<>>, dotenv |-> <<<<"API_KEY">>>>, readme |-> <<>>]

C_py == [files |-> {F_requirements, <<"server.py">>, <<"README.md">>}, pkg |-> NoPkg,
         mcp_env |-> <<>>, dotenv |-> <<>>, readme |-> <<<<"X">>>>]

\* dependencies to install, nothing to run
C_lib == [EmptyContent EXCEPT !.files = {F_requirements}]

\* a node project with a build script whose entry point is not a build output
C_plain == [EmptyContent EXCEPT
              !.files = {F_package_json, <<"index.js">>},
              !.pkg = [valid |-> TRUE, tools |-> {}, build |-> TRUE, bin_dict |-> FALSE,
                       bin |-> <<>>, main |-> <<<<"index.js">>>>]]

\* a python project whose .env.example assigns one name on two of its lines
C_keys == [EmptyContent EXCEPT !.files = {F_requirements, <<"main.py">>, F_env_example},
                               !.dotenv = <<<<"API_KEY">>, <<"API_KEY">>>>]

RepoContents == {C_script, C_node, C_go, C_py, C_lib, C_plain, C_keys}

ToolSets == {{"git", "npm", "node", "tsc", "pip", "python3", "go"},
             {"git", "npm", "node"},
             {"npm", "node"}}

EnvValues == {<<>>, <<"v1">>}

PipeRegistries ==
    {NoFile,
     FileOf(Dump(JObj(<< <<K_theme, JStr(<<"dark">>)>>,
                         <<K_mcpServers, JObj(<< <<other_srv, SampleEntry>> >>)>>,
                         <<K_servers, LegacyList>> >>))),
     FileOf(Dump(JObj(<< <<K_servers, LegacyList>>,
                         <<K_mcpServers, JList(<<SampleEntry>>)>> >>)))}

\* an install directory: gen is the call whose clone filled it
NoDir == [exists |-> FALSE, gen |-> 0, content |-> EmptyContent]

\* what rmtree leaves when it fails at the directory itself
EmptiedDir == [exists |-> TRUE, gen |-> 0, content |-> EmptyContent]

DestState(d) == IF ~d.exists THEN "absent"
                ELSE IF d.content.files = {} THEN "empty" ELSE "files"

NoCall == [valid |-> FALSE, ref |-> <<>>, demo |-> FALSE, ok |-> FALSE]

DemoFiles == {F_package_json, F_requirements, F_pyproject, F_cargo_toml, F_go_mod,
              <<"README.md">>}

\* roo.py 1059-1067: the demo scaffolding
Scaffold(d, n) ==
    IF d.exists THEN [d EXCEPT !.content.files = @ \cup DemoFiles]
    ELSE [exists |-> TRUE, gen |-> n,
          content |-> [EmptyContent EXCEPT !.files = DemoFiles]]

(***************************************************************************)
(* Specifications                                                          *)
(***************************************************************************)
ParseIdle == repo_input = <<>> /\ parsed = NotParsed
EnvIdle   == workdir = NoWorkdir /\ discovered = NotDiscovered
ToolIdle  == tool_call = NoToolCall
MergeIdle == configs = <<>> /\ merged = NotMerged
RaceIdle  == runs = NoRuns
DetectIdle == detect_call = NoDetectCall
RunIdle    == run_detect = NoRunDetect
FollowIdle == follow = NoFollow
FileIdle  == settings_file = NoFile /\ loaded = NotLoaded
PipeIdle  ==
    /\ pc = "idle" /\ result = "none" /\ failed_at = ""
    /\ demo_mode = FALSE /\ skip_env_config = FALSE
    /\ reg_before = NoFile /\ prev_call = NoCall /\ calls = 0 /\ registry = JNull
    /\ EnvIdle /\ ToolIdle /\ MergeIdle /\ RaceIdle /\ DetectIdle /\ RunIdle /\ FollowIdle
    /\ setup_config = NoConfig /\ pending = <<>> /\ built = "unbound"
    /\ mcp_entry = JNull /\ cmds = <<>> /\ removed = {} /\ prompted = <<>>
    /\ dirs = [n \in PipeNames |-> NoDir]
    /\ on_path = {} /\ is_windows = FALSE

\* parse_repo_input alone, on every reference of ParseInputs
InitParse ==
    /\ repo_input \in ParseInputs
    /\ parsed = NotParsed
    /\ FileIdle
    /\ PipeIdle

ParseRepoInput ==
    /\ ~parsed.done
    /\ parsed' = Done(parse_repo_input(repo_input))
    /\ UNCHANGED <<repo_input, fileVars, pipeVars>>

NextParse == ParseRepoInput

SpecParse == InitParse /\ [][NextParse]_vars

\* read_settings alone, on every file of SettingsFiles
InitSettings ==
    /\ settings_file \in SettingsFiles
    /\ loaded = NotLoaded
    /\ ParseIdle
    /\ PipeIdle

ReadSettings ==
    /\ ~loaded.done
    /\ loaded' = Loaded(read_settings(settings_file))
    /\ UNCHANGED <<settings_file, parseVars, pipeVars>>

NextSettings == ReadSettings

SpecSettings == InitSettings /\ [][NextSettings]_vars

(***************************************************************************)
(* write_settings followed by read_settings on the same path               *)
(***************************************************************************)
RoundTripIdle ==
    /\ result = "none" /\ failed_at = ""
    /\ demo_mode = FALSE /\ skip_env_config = FALSE
    /\ reg_before = NoFile /\ prev_call = NoCall /\ calls = 0
    /\ setup_config = NoConfig /\ pending = <<>> /\ built = "unbound"
    /\ mcp_entry = JNull /\ cmds = <<>> /\ removed = {} /\ prompted = <<>>
    /\ dirs = [n \in PipeNames |-> NoDir]
    /\ on_path = {} /\ is_windows = FALSE

InitRoundTrip ==
    /\ registry \in RoundTripRegistries
    /\ settings_file \in {NoFile, FileOf(FullDoc)}
    /\ loaded = NotLoaded
    /\ pc = "to_write"
    /\ ParseIdle
    /\ RoundTripIdle
    /\ EnvIdle /\ ToolIdle /\ MergeIdle /\ RaceIdle /\ DetectIdle /\ RunIdle /\ FollowIdle

RoundTripFrame ==
    UNCHANGED <<parseVars, loaded, argVars, result, failed_at, workVars, worldVars>>

\* (variant: the file is opened for appending)
WriteSettings_Appends ==
    /\ pc = "to_write"
    /\ \/ settings_file' = FileOf(settings_file.text \o Dump(registry)) /\ pc' = "written"
       \/ \E n \in 0..MaxCut :
            /\ n < Len(Dump(registry))
            /\ settings_file' = FileOf(SubSeq(Dump(registry), 1, n))
            /\ pc' = "write_raised"
       \/ pc' = "write_raised" /\ UNCHANGED settings_file
    /\ RoundTripFrame

\* roo.py 184-192: write_settings(path, registry); open() or json.dump may
\* raise, and the exception is raised again to the caller
WriteSettings ==
    /\ pc = "to_write"
    /\ \/ settings_file' = FileOf(Dump(registry)) /\ pc' = "written"
       \/ \E n \in 0..MaxCut :
            /\ n < Len(Dump(registry))
            /\ settings_file' = FileOf(SubSeq(Dump(registry), 1, n))
            /\ pc' = "write_raised"
       \/ pc' = "write_raised" /\ UNCHANGED settings_file
    /\ RoundTripFrame

\* roo.py 151-182: read_settings(path) after the write has returned
ReadBack ==
    /\ pc \in {"written", "write_raised"}
    /\ ~loaded.done
    /\ loaded' = Loaded(read_settings(settings_file))
    /\ UNCHANGED <<settings_file, parseVars, pipeVars>>

NextRoundTrip == WriteSettings \/ ReadBack

SpecRoundTrip == InitRoundTrip /\ [][NextRoundTrip]_vars

(***************************************************************************)
(* Env-requirement discovery and parse_readme_for_env_vars on their own    *)
(***************************************************************************)
N_X     == <<"X">>
N_Y     == <<"Y">>
N_Z     == <<"Z">>
N_OTHER == <<"OTHER">>
N_API   == <<"API_KEY">>
API_KEY == <<"A","P","I","_","K","E","Y">>

EnvObj(names) == JObj(<< <<K_env, JObj([i \in 1..Len(names) |-> <<names[i], JStr(<<>>)>>])>> >>)

McpJsonFiles ==
    {NoFile,
     FileOf(Dump(EnvObj(<<N_Z, N_X>>))),
     FileOf(Dump(EnvObj(<<>>))),
     FileOf(Dump(JObj(<< <<K_env, JList(<<JStr(N_X)>>)>> >>))),
     FileOf(SubSeq(Dump(EnvObj(<<N_Z>>)), 1, 3)),
     Unreadable(Dump(EnvObj(<<N_Z>>)))}

EnvExampleFiles ==
    {NoLines,
     [exists |-> TRUE, readable |-> TRUE, lines |-> <<API_KEY \o <<"=">>>>],
     [exists |-> TRUE, readable |-> TRUE,
      lines |-> << <<"#"," ">> \o API_KEY \o <<"=">>, <<>>,
                   <<" ">> \o API_KEY \o <<" ","=","1","\n">>,
                   <<"X","2","=">>, API_KEY \o <<"=","3">> >>],
     [exists |-> TRUE, readable |-> TRUE,
      lines |-> << <<"#">>, <<"1","B","=","3">>, <<"n","o"," ","e","q">>, <<"=","1">> >>],
     [exists |-> TRUE, readable |-> FALSE, lines |-> <<API_KEY \o <<"=">>>>]}

B_other    == Dump(EnvObj(<<N_OTHER>>))
B_claim    == Dump(JObj(<< <<<<"a">>, JObj(<< <<K_env, JObj(<< <<N_X, JNum(1)>> >>)>> >>)>>,
                           <<<<"b">>, JObj(<< <<K_env, JObj(<< <<N_Y, JNum(2)>> >>)>> >>)>> >>))
B_unsorted == Dump(EnvObj(<<N_Y, N_X, N_API>>))
B_nested   == Dump(JObj(<< <<K_env, JObj(<< <<N_Z, EnvObj(<<N_X>>)>> >>)>> >>))
B_env_env  == Dump(JObj(<< <<K_env, EnvObj(<<N_Y>>)>> >>))
B_list     == Dump(JList(<<EnvObj(<<N_Y>>), JNum(1),
                           JList(<<JObj(<< <<<<"a">>, EnvObj(<<N_X>>)>> >>)>>)>>))
B_wrong    == Dump(JObj(<< <<K_env, JList(<<JStr(N_X)>>)>>, <<<<"a">>, JStr(K_env)>> >>))
B_bad      == SubSeq(B_claim, 1, Len(B_claim) - 1)

ReadmeOf(blocks) == [exists |-> TRUE, readable |-> TRUE, blocks |-> blocks]

ReadmeFiles ==
    {ReadmeOf(<<B_other>>), ReadmeOf(<<B_claim>>),
     ReadmeOf(<<B_bad, B_unsorted, B_claim>>),
     ReadmeOf(<<B_nested, <<WS_TOK>>, B_list>>),
     ReadmeOf(<<B_env_env>>), ReadmeOf(<<B_wrong>>), ReadmeOf(<<>>),
     [exists |-> TRUE, readable |-> FALSE, blocks |-> <<B_other>>]}

OnlyReadme(n, f) == [m \in READMES |-> IF m = n THEN f ELSE NoReadme]

ReadmeSets ==
    {[m \in READMES |-> NoReadme]}
    \cup {OnlyReadme(<<"README.md">>, f) : f \in ReadmeFiles}
    \cup {OnlyReadme(<<"README.rst">>, ReadmeOf(<<B_bad, B_unsorted, B_claim>>)),
          [OnlyReadme(<<"README.md">>, ReadmeOf(<<B_wrong>>))
             EXCEPT ![<<"README">>] = ReadmeOf(<<B_other>>)],
          [OnlyReadme(<<"README.md">>, ReadmeOf(<<B_other>>))
             EXCEPT ![<<"README.rst">>] = ReadmeOf(<<B_claim>>)]}

Workdirs == {[mcp_json |-> m, env_example |-> e, readmes |-> r] :
                m \in McpJsonFiles, e \in EnvExampleFiles, r \in ReadmeSets}

InitEnv ==
    /\ workdir \in Workdirs
    /\ discovered = NotDiscovered
    /\ registry = JNull /\ ToolIdle /\ MergeIdle /\ RaceIdle /\ DetectIdle /\ RunIdle /\ FollowIdle
    /\ pc = "idle"
    /\ ParseIdle /\ FileIdle /\ RoundTripIdle

EnvFrame ==
    UNCHANGED <<parseVars, fileVars, demo_mode, skip_env_config, reg_before, prev_call,
                calls, registry, workdir, tool_call, configs, merged, runs, detect_call,
                run_detect, follow, ctlVars, workVars,
                worldVars>>

\* roo.py 1387-1436: discovery as install_mcp runs it
DiscoverEnv ==
    /\ ~discovered.done
    /\ discovered' = [done |-> TRUE, op |-> "discover",
                      vars |-> EnvRequirements(ContentOf(workdir)),
                      read |-> EnvSourcesRead(ContentOf(workdir))]
    /\ EnvFrame

\* roo.py 944-977: parse_readme_for_env_vars on one README
ParseReadme ==
    /\ ~discovered.done
    /\ \E n \in READMES :
         /\ workdir.readmes[n].exists
         /\ discovered' = [done |-> TRUE, op |-> "readme",
                           vars |-> parse_readme_for_env_vars(workdir.readmes[n]),
                           read |-> <<n>>]
    /\ EnvFrame

NextEnv == DiscoverEnv \/ ParseReadme

SpecEnv == InitEnv /\ [][NextEnv]_vars

(***************************************************************************)
(* check_and_install_tool and run_command on their own: calls follow one   *)
(* another on a search path that a successful install extends.            *)
(***************************************************************************)
UnitTools == {"git", "npm", "bun", "tsc", "webpack", "go"}

UnitPaths == SUBSET {"git", "npm", "tsc", "go"}

UnitCmds == {<<"git", "clone">>, <<"npm", "install">>, <<"go", "mod", "download">>,
             <<"tsc">>, <<"bun", "run", "build">>, <<"webpack">>, <<>>}

InitTool ==
    /\ on_path \in UnitPaths /\ is_windows \in BOOLEAN
    /\ tool_call = NoToolCall /\ MergeIdle /\ RaceIdle /\ DetectIdle /\ RunIdle /\ FollowIdle
    /\ ParseIdle /\ FileIdle
    /\ pc = "idle" /\ result = "none" /\ failed_at = ""
    /\ demo_mode = FALSE /\ skip_env_config = FALSE
    /\ reg_before = NoFile /\ prev_call = NoCall /\ calls = 0 /\ registry = JNull
    /\ EnvIdle
    /\ setup_config = NoConfig /\ pending = <<>> /\ built = "unbound"
    /\ mcp_entry = JNull /\ cmds = <<>> /\ removed = {} /\ prompted = <<>>
    /\ dirs = [n \in PipeNames |-> NoDir]

ToolFrame ==
    UNCHANGED <<parseVars, fileVars, demo_mode, skip_env_config, reg_before, prev_call,
                calls, registry, workdir, discovered, configs, merged, runs, detect_call,
                run_detect, follow, ctlVars, workVars,
                dirs, is_windows>>

\* roo.py 421-558: one call of check_and_install_tool
CheckTool ==
    /\ \E tool \in UnitTools, answer \in PromptAnswers :
         \E o \in CheckAndInstall(tool, on_path, is_windows, answer) :
            /\ on_path' = o.tools
            /\ tool_call' = [fn |-> "check_and_install_tool", exe |-> tool,
                             cmd |-> <<tool>>, answer |-> answer, before |-> on_path,
                             returned |-> o.ok, error |-> "none", exit |-> o.exit,
                             procs |-> IF o.ran THEN <<ToolCmd(tool)>> ELSE <<>>]
    /\ ToolFrame

\* roo.py 562-686: one call of run_command
RunCmd ==
    /\ \E cmd \in UnitCmds, answer \in PromptAnswers :
         \E o \in RunCommand(cmd, on_path, is_windows, answer) :
            /\ on_path' = o.tools
            /\ tool_call' = [fn |-> "run_command",
                             exe |-> IF cmd = <<>> THEN "" ELSE Head(cmd),
                             cmd |-> cmd, answer |-> answer, before |-> on_path,
                             returned |-> o.tool_ok, error |-> o.error,
                             exit |-> o.tool_exit,
                             procs |-> IF cmd = <<>> THEN <<>>
                                       ELSE Started(<<>>, Head(cmd), o, "run", cmd, "")]
    /\ ToolFrame

NextTool == CheckTool \/ RunCmd

SpecTool == InitTool /\ [][NextTool]_vars

(***************************************************************************)
(* merge_configs on its own, on every sequence of up to MaxConfigs configs *)
(***************************************************************************)
MaxConfigs == 3

K_scope    == <<"default_scope">>
K_lines    == <<"log_lines_default">>
G_github   == <<"github">>
G_gitlab   == <<"gitlab">>
V_token    == <<"GITHUB_PERSONAL_ACCESS_TOKEN">>
V_host     == <<"HOST">>

\* the shape of load_roo_config's default_config
CfgDefault ==
    JObj(<< <<K_scope, JStr(<<"global">>)>>, <<K_lines, JNum(5)>>,
            <<K_env, JObj(<< <<G_github, JObj(<< <<V_token, JNull>>,
                                                <<V_host, JStr(<<"github.com">>)>> >>)>>,
                             <<G_gitlab, JObj(<< <<V_host, JStr(<<"gitlab.com">>)>> >>)>>
                          >>)>> >>)

CfgScope == JObj(<< <<K_scope, JStr(<<"project">>)>> >>)

CfgScopeEnv ==
    JObj(<< <<K_scope, JStr(<<"project">>)>>,
            <<K_env, JObj(<< <<G_github, JObj(<< <<V_token, JStr(<<"t">>)>> >>)>> >>)>> >>)

CfgLinesEnv ==
    JObj(<< <<K_env, JObj(<< <<G_gitlab, JObj(<< <<V_host, JStr(<<"lab">>)>> >>)>>,
                             <<<<"extra">>, JObj(<< <<<<"A">>, JStr(<<"1">>)>> >>)>> >>)>>,
            <<K_lines, JNum(9)>> >>)

CfgBadGroup == JObj(<< <<K_env, JObj(<< <<G_github, JStr(<<"oops">>)>> >>)>> >>)

CfgBadEnv == JObj(<< <<K_env, JStr(<<"x">>)>> >>)

CfgNotDict == JList(<<JStr(<<"x">>)>>)

MergeInputs ==
    {CfgDefault, CfgScope, CfgScopeEnv, CfgLinesEnv, CfgBadGroup, CfgBadEnv, CfgNotDict}

InitMerge ==
    /\ configs \in UNION {[1..n -> MergeInputs] : n \in 1..MaxConfigs}
    /\ merged = NotMerged
    /\ ToolIdle /\ EnvIdle /\ RaceIdle /\ DetectIdle /\ RunIdle /\ FollowIdle /\ registry = JNull
    /\ pc = "idle"
    /\ ParseIdle /\ FileIdle /\ RoundTripIdle

\* config_loader.py 94-108: merge_configs(*configs)
MergeConfigs ==
    /\ ~merged.done
    /\ LET r == merge_configs(configs)
       IN  merged' = [done |-> TRUE, raised |-> r.raised, data |-> r.data]
    /\ UNCHANGED <<parseVars, fileVars, demo_mode, skip_env_config, reg_before, prev_call,
                   calls, registry, workdir, discovered, tool_call, configs, runs, detect_call,
                   run_detect, follow,
                   ctlVars,
                   workVars, worldVars>>

NextMerge == MergeConfigs

SpecMerge == InitMerge /\ [][NextMerge]_vars

(***************************************************************************)
(* detect_project_type alone, on every set of marker files and every set   *)
(* of resolvable package managers                                          *)
(***************************************************************************)
ManagerTools == {"npm", "yarn", "pnpm", "pip", "pip3", "poetry", "cargo", "go"}

InitDetect ==
    /\ \E files \in SUBSET MarkerFiles, tl \in SUBSET ManagerTools :
          detect_call = [NoDetectCall EXCEPT !.files = files, !.tools = tl]
    /\ ToolIdle /\ EnvIdle /\ MergeIdle /\ RaceIdle /\ RunIdle /\ FollowIdle
    /\ registry = JNull
    /\ pc = "idle"
    /\ ParseIdle /\ FileIdle /\ RoundTripIdle

DetectType ==
    /\ ~detect_call.done
    /\ detect_call' =
          [detect_call EXCEPT
             !.done = TRUE,
             !.returned = detect_project_type([EmptyContent EXCEPT !.files = detect_call.files],
                                              detect_call.tools)]
    /\ UNCHANGED <<parseVars, fileVars, demo_mode, skip_env_config, reg_before, prev_call,
                   calls, registry, workdir, discovered, tool_call, configs, merged, runs,
                   run_detect, follow, ctlVars, workVars, worldVars>>

NextDetect == DetectType

SpecDetect == InitDetect /\ [][NextDetect]_vars

(***************************************************************************)
(* detect_run_command alone, on directories of up to MaxFiles files        *)
(***************************************************************************)
MaxFiles == 3

F_cli      == <<"cli.js">>
F_lib_main == <<"lib/", "main.js">>

RunFiles ==
    {F_package_json, F_cli, F_lib_main, F_go_mod, F_main_go, F_cargo_toml}
    \cup {common_node_files[i] : i \in 1..Len(common_node_files)}
    \cup {common_python_files[i] : i \in 1..Len(common_python_files)}

ValidPkg(bin_dict, bin, main) ==
    [valid |-> TRUE, tools |-> {}, build |-> FALSE, bin_dict |-> bin_dict, bin |-> bin,
     main |-> main]

\* package.json files: one json.load fails on, and objects with and without
\* bin (an object or a string) and main
RunPkgs ==
    {NoPkg,
     ValidPkg(FALSE, <<>>, <<>>),
     ValidPkg(TRUE, <<F_cli, <<"index.js">>>>, <<>>),
     ValidPkg(FALSE, <<F_cli>>, <<>>),
     ValidPkg(FALSE, <<>>, <<F_lib_main>>),
     ValidPkg(TRUE, <<F_cli>>, <<F_lib_main>>)}

RunTools == SUBSET {"python3", "python", "go", "cargo"}

RunContents ==
    {[EmptyContent EXCEPT !.files = fs, !.pkg = p] :
        fs \in {f \in SUBSET RunFiles : Cardinality(f) <= MaxFiles /\ F_package_json \in f},
        p \in RunPkgs}
    \cup {[EmptyContent EXCEPT !.files = fs] :
            fs \in {f \in SUBSET RunFiles : Cardinality(f) <= MaxFiles
                                             /\ F_package_json \notin f}}

InitRun ==
    /\ \E c \in RunContents, tl \in RunTools :
          run_detect = [NoRunDetect EXCEPT !.content = c, !.tools = tl]
    /\ ToolIdle /\ EnvIdle /\ MergeIdle /\ RaceIdle /\ DetectIdle /\ FollowIdle
    /\ registry = JNull
    /\ pc = "idle"
    /\ ParseIdle /\ FileIdle /\ RoundTripIdle

DetectRun ==
    /\ ~run_detect.done
    /\ run_detect' = [run_detect EXCEPT
                        !.done = TRUE,
                        !.returned = detect_run_command(run_detect.content,
                                                        run_detect.tools)]
    /\ UNCHANGED <<parseVars, fileVars, demo_mode, skip_env_config, reg_before, prev_call,
                   calls, registry, workdir, discovered, tool_call, configs, merged, runs,
                   detect_call, follow, ctlVars, workVars, worldVars>>

NextRun == DetectRun

SpecRun == InitRun /\ [][NextRun]_vars

(***************************************************************************)
(* show_logs in follow mode, next to the processes that write the log      *)
(***************************************************************************)
MaxEmitted == 5     \* log lines emitted in one behaviour

\* logging_config.py 10: MAX_LOG_SIZE, counted in lines here
MAX_LOG_SIZE == 3

FollowFrame ==
    UNCHANGED <<parseVars, fileVars, demo_mode, skip_env_config, reg_before, prev_call,
                calls, registry, workdir, discovered, tool_call, configs, merged, runs,
                detect_call, run_detect, ctlVars, workVars, worldVars>>

LastLines(seq, n) == IF Len(seq) <= n THEN seq ELSE SubSeq(seq, Len(seq) - n + 1, Len(seq))

\* the file the open handle of show_logs reads
FollowedFile == IF follow.rolled THEN follow.held ELSE follow.log

InitFollow ==
    /\ \E k \in 0..(MAX_LOG_SIZE - 1), e \in BOOLEAN :
          follow = [NoFollow EXCEPT !.exists = e,
                                    !.log = IF e THEN [i \in 1..k |-> i] ELSE <<>>,
                                    !.emitted = IF e THEN k ELSE 0]
    /\ ToolIdle /\ EnvIdle /\ MergeIdle /\ RaceIdle /\ DetectIdle /\ RunIdle
    /\ registry = JNull
    /\ pc = "idle"
    /\ ParseIdle /\ FileIdle /\ RoundTripIdle

\* roo.py 853-879: show_logs(follow=True, lines): without a log file it
\* returns True at once; else it opens the newest one, prints the tail that
\* was asked for or seeks to the end, and enters the loop
StartFollow(lines) ==
    /\ follow.pc = "idle"
    /\ IF ~follow.exists
       THEN follow' = [follow EXCEPT !.pc = "returned", !.returned = "true"]
       ELSE follow' = [follow EXCEPT
                         !.pc = "following", !.looped = TRUE,
                         !.start = follow.emitted,
                         !.pos = Len(follow.log),
                         !.tailed = IF lines > 0 THEN LastLines(follow.log, lines)
                                    ELSE <<>>]
    /\ FollowFrame

\* logging_config.py 26-31 and 65-85: a process logs a line through its
\* RotatingFileHandler, which first renames a roo.log that would reach
\* maxBytes to roo.log.1 and begins a new roo.log; an open handle stays on
\* the renamed file
Emit ==
    /\ follow.emitted < MaxEmitted
    /\ LET id   == follow.emitted + 1
           roll == follow.exists /\ Len(follow.log) + 1 >= MAX_LOG_SIZE
       IN  follow' = [follow EXCEPT
                        !.exists = TRUE,
                        !.emitted = id,
                        !.log = IF roll THEN <<id>> ELSE Append(follow.log, id),
                        !.rolled = @ \/ (roll /\ follow.pc = "following"),
                        !.held = IF roll /\ follow.pc = "following" /\ ~follow.rolled
                                 THEN follow.log ELSE @]
    /\ FollowFrame

\* roo.py 881-886: readline gives the next line, which is printed, or
\* nothing, and the loop sleeps
Poll ==
    /\ follow.pc = "following"
    /\ IF follow.pos < Len(FollowedFile)
       THEN follow' = [follow EXCEPT
                         !.pos = @ + 1,
                         !.printed = Append(@, FollowedFile[follow.pos + 1])]
       ELSE UNCHANGED follow
    /\ FollowFrame

\* roo.py 887-889: KeyboardInterrupt
Interrupt ==
    /\ follow.pc = "following"
    /\ follow' = [follow EXCEPT !.pc = "returned", !.interrupted = TRUE,
                                !.returned = "true"]
    /\ FollowFrame

NextFollow ==
    \/ \E lines \in {0, 1} : StartFollow(lines)
    \/ Emit
    \/ Poll
    \/ Interrupt

\* the loop of show_logs keeps running: after time.sleep(0.1) it reads again
SpecFollow == InitFollow /\ [][NextFollow]_vars /\ WF_vars(Poll)

(***************************************************************************)
(* The settings stage and the save of two concurrent install_mcp calls     *)
(***************************************************************************)
RaceRegistries == PipeRegistries \cup {FileOf(<<>>)}

\* both calls have got through their own clone, install and build
InitRace ==
    /\ settings_file \in RaceRegistries /\ loaded = NotLoaded
    /\ runs = [r \in RaceRuns |-> [IdleRun EXCEPT !.pc = "settings"]]
    /\ ToolIdle /\ EnvIdle /\ MergeIdle /\ DetectIdle /\ RunIdle /\ FollowIdle /\ registry = JNull
    /\ pc = "idle"
    /\ ParseIdle /\ RoundTripIdle

RaceFrame ==
    UNCHANGED <<parseVars, loaded, demo_mode, skip_env_config, reg_before, prev_call,
                calls, registry, workdir, discovered, tool_call, configs, merged,
                detect_call, run_detect, follow, ctlVars, workVars, worldVars>>

\* roo.py 1319-1324: settings_data = read_settings(settings_path)
RaceRead(r) ==
    /\ runs[r].pc = "settings"
    /\ LET d == read_settings(settings_file).data
       IN  runs' = [runs EXCEPT ![r] = [@ EXCEPT !.pc = "save", !.read = d, !.data = d]]
    /\ UNCHANGED settings_file
    /\ RaceFrame

\* (variant: the entry is stored in the registry as it is on disk at the save)
RaceSave_ReadsAgain(r) ==
    /\ runs[r].pc = "save"
    /\ LET d == DropLegacy(StoreEntry(read_settings(settings_file).data, RaceName(r),
                                      RaceEntry(r)))
       IN  \/ /\ runs' = [runs EXCEPT ![r] = [@ EXCEPT !.pc = "write", !.data = d]]
              /\ settings_file' = FileOf(<<>>)
           \/ /\ runs' = [runs EXCEPT ![r] = [@ EXCEPT !.pc = "done", !.data = d,
                                                        !.result = "false"]]
              /\ UNCHANGED settings_file
    /\ RaceFrame

\* roo.py 1474-1484 and 184-187: the entry is stored in the settings_data the
\* call read, and the settings file opened for writing, which empties it
RaceSave(r) ==
    /\ runs[r].pc = "save"
    /\ LET d == DropLegacy(StoreEntry(runs[r].data, RaceName(r), RaceEntry(r)))
       IN  \/ /\ runs' = [runs EXCEPT ![r] = [@ EXCEPT !.pc = "write", !.data = d]]
              /\ settings_file' = FileOf(<<>>)
           \/ /\ runs' = [runs EXCEPT ![r] = [@ EXCEPT !.pc = "done", !.data = d,
                                                        !.result = "false"]]
              /\ UNCHANGED settings_file                      \* open() raises
    /\ RaceFrame

\* roo.py 188-192, 1484-1541: json.dump writes the document and the call
\* returns True, or fails part-way and the call returns False
RaceWrite(r) ==
    /\ runs[r].pc = "write"
    /\ LET text == Dump(runs[r].data)
           nth  == 1 + Cardinality({q \in RaceRuns : runs[q].wrote > 0})
       IN  \/ /\ settings_file' = FileOf(WriteAt0(settings_file.text, text))
              /\ runs' = [runs EXCEPT ![r] = [@ EXCEPT !.pc = "done", !.result = "true",
                                                        !.wrote = nth]]
           \/ \E n \in 0..MaxCut :
                /\ n < Len(text)
                /\ settings_file' = FileOf(WriteAt0(settings_file.text, SubSeq(text, 1, n)))
                /\ runs' = [runs EXCEPT ![r] = [@ EXCEPT !.pc = "done",
                                                          !.result = "false"]]
    /\ RaceFrame

NextRace == \E r \in RaceRuns : RaceRead(r) \/ RaceSave(r) \/ RaceWrite(r)

SpecRace == InitRace /\ [][NextRace]_vars

(***************************************************************************)
(* install_mcp, stage by stage.  Calls follow one another; each stage that *)
(* touches the disk, starts a process or prompts is one step.              *)
(***************************************************************************)
Init ==
    /\ repo_input = <<>> /\ parsed = NotParsed
    /\ settings_file \in PipeRegistries /\ loaded = NotLoaded
    /\ pc = "idle" /\ result = "none" /\ failed_at = ""
    /\ demo_mode = FALSE /\ skip_env_config = FALSE
    /\ reg_before = NoFile /\ prev_call = NoCall /\ calls = 0 /\ registry = JNull
    /\ EnvIdle /\ ToolIdle /\ MergeIdle /\ RaceIdle /\ DetectIdle /\ RunIdle /\ FollowIdle
    /\ setup_config = NoConfig /\ pending = <<>> /\ built = "unbound"
    /\ mcp_entry = JNull /\ cmds = <<>> /\ removed = {} /\ prompted = <<>>
    /\ dirs = [n \in PipeNames |-> NoDir]
    /\ on_path \in ToolSets /\ is_windows \in BOOLEAN

Goto(stage) == pc' = stage /\ UNCHANGED <<result, failed_at>>

\* (variant: the call is left by the exception instead of returning False)
Fail_Propagates(stage) == pc' = "raised" /\ result' = "raised" /\ failed_at' = stage

\* return False
Fail(stage) == pc' = "idle" /\ result' = "false" /\ failed_at' = stage

\* return True
Succeed == pc' = "idle" /\ result' = "true" /\ UNCHANGED failed_at

Name    == parsed.repo_name
Content == dirs[Name].content

\* roo.py 981-1001: the call begins and parses its reference
Start(ref, demo, skip) ==
    /\ pc = "idle" /\ calls < MaxCalls
    /\ calls' = calls + 1
    /\ repo_input' = ref /\ demo_mode' = demo /\ skip_env_config' = skip
    /\ prev_call' = [valid |-> calls > 0, ref |-> repo_input, demo |-> demo_mode,
                     ok |-> result = "true"]
    /\ reg_before' = settings_file
    /\ parsed' = Done(parse_repo_input(ref))
    /\ loaded' = NotLoaded
    /\ setup_config' = NoConfig /\ pending' = <<>> /\ built' = "unbound"
    /\ mcp_entry' = JNull /\ cmds' = <<>> /\ removed' = {} /\ prompted' = <<>>
    /\ IF parsed'.ok
       THEN pc' = "clean" /\ result' = "running" /\ failed_at' = ""
       ELSE Fail("parse")                                 \* roo.py 1545-1565
    /\ UNCHANGED <<settings_file, unitVars, worldVars>>

\* roo.py 1003-1014 and 689-699: a previous installation is removed.  rmtree
\* may fail, which safe_remove_directory only reports: before it has removed
\* everything below the directory, or at the directory itself.
Clean ==
    /\ pc = "clean"
    /\ IF dirs[Name].exists /\ ~demo_mode
       THEN \/ dirs' = [dirs EXCEPT ![Name] = NoDir] /\ removed' = removed \cup {Name}
            \/ dirs' = [dirs EXCEPT ![Name] = EmptiedDir] /\ UNCHANGED removed
            \/ UNCHANGED <<dirs, removed>>
       ELSE UNCHANGED <<dirs, removed>>
    /\ Goto("clone")
    /\ UNCHANGED <<parseVars, prompted, fileVars, argVars, setup_config, pending, built, mcp_entry,
                   cmds, on_path, is_windows>>

\* (variant: what is at the destination is removed when the clone fails)
Clone_RemovesOnFailure ==
    /\ pc = "clone"
    /\ IF demo_mode
       THEN /\ dirs' = [dirs EXCEPT ![Name] = Scaffold(@, calls)]
            /\ Goto("detect")
            /\ UNCHANGED <<cmds, on_path>>
       ELSE \E o \in run_command(<<"git", "clone">>, on_path, is_windows) :
              /\ o.ok => DestState(dirs[Name]) # "files"
              /\ on_path' = o.tools
              /\ cmds' = Started(cmds, "git", o, "clone", <<"git", "clone">>,
                                 DestState(dirs[Name]))
              /\ IF o.ok
                 THEN /\ \E c \in RepoContents :
                            dirs' = [dirs EXCEPT ![Name] =
                                        [exists |-> TRUE, gen |-> calls, content |-> c]]
                      /\ Goto("detect")
                 ELSE Fail("clone") /\ dirs' = [dirs EXCEPT ![Name] = NoDir]
    /\ UNCHANGED <<parseVars, prompted, fileVars, argVars, setup_config, pending, built, mcp_entry,
                   removed, is_windows>>

\* roo.py 1016-1069: git clone (which refuses a destination that exists and
\* is not empty), or the demo scaffolding
Clone ==
    /\ pc = "clone"
    /\ IF demo_mode
       THEN /\ dirs' = [dirs EXCEPT ![Name] = Scaffold(@, calls)]
            /\ Goto("detect")
            /\ UNCHANGED <<cmds, on_path>>
       ELSE \E o \in run_command(<<"git", "clone">>, on_path, is_windows) :
              /\ o.ok => DestState(dirs[Name]) # "files"
              /\ on_path' = o.tools
              /\ cmds' = Started(cmds, "git", o, "clone", <<"git", "clone">>,
                                 DestState(dirs[Name]))
              /\ IF o.ok
                 THEN /\ \E c \in RepoContents :
                            dirs' = [dirs EXCEPT ![Name] =
                                        [exists |-> TRUE, gen |-> calls, content |-> c]]
                      /\ Goto("detect")
                 ELSE Fail("clone") /\ UNCHANGED dirs
    /\ UNCHANGED <<parseVars, prompted, fileVars, argVars, setup_config, pending, built, mcp_entry,
                   removed, is_windows>>

\* (variant: a settings file is created as soon as the project is analysed)
Detect_CreatesSettings ==
    /\ pc = "detect"
    /\ settings_file' = IF settings_file = NoFile THEN FileOf(Dump(default_config))
                        ELSE settings_file
    /\ LET cfg == detect_project_type(Content, on_path)
       IN  /\ setup_config' = cfg
           /\ CASE cfg.kind = "none"  -> Goto("settings") /\ pending' = <<>>
                [] cfg.kind = "error" -> Fail("detect") /\ pending' = <<>>
                [] cfg.kind = "ok"    ->
                     /\ pending' = IF cfg.type = "npm" THEN PrecheckTools(Content) ELSE <<>>
                     /\ Goto(IF pending' # <<>> THEN "precheck" ELSE "deps")
    /\ UNCHANGED <<parseVars, prompted, loaded, argVars, built, mcp_entry, cmds, removed,
                   worldVars>>

\* roo.py 1077-1093: detect_project_type
Detect ==
    /\ pc = "detect"
    /\ LET cfg == detect_project_type(Content, on_path)
       IN  /\ setup_config' = cfg
           /\ CASE cfg.kind = "none"  -> Goto("settings") /\ pending' = <<>>
                [] cfg.kind = "error" -> Fail("detect") /\ pending' = <<>>
                [] cfg.kind = "ok"    ->
                     /\ pending' = IF cfg.type = "npm" THEN PrecheckTools(Content) ELSE <<>>
                     /\ Goto(IF pending' # <<>> THEN "precheck" ELSE "deps")
    /\ UNCHANGED <<parseVars, prompted, fileVars, argVars, built, mcp_entry, cmds, removed,
                   worldVars>>

\* roo.py 1121-1138: the npm pre-check, one tool at a time
Precheck ==
    /\ pc = "precheck"
    /\ \E o \in check_and_install_tool(Head(pending), on_path, is_windows) :
         /\ on_path' = o.tools
         /\ cmds' = IF o.ran THEN Append(cmds, ToolCmd(Head(pending))) ELSE cmds
         /\ IF o.ok
            THEN /\ pending' = Tail(pending)
                 /\ Goto(IF pending' # <<>> THEN "precheck" ELSE "deps")
            ELSE Fail("precheck") /\ UNCHANGED pending
    /\ UNCHANGED <<parseVars, prompted, fileVars, argVars, setup_config, built, mcp_entry, removed,
                   dirs, is_windows>>

\* (variant: a failed dependency install is tried a second time)
InstallDeps_RetriesOnce ==
    /\ pc = "deps"
    /\ IF demo_mode
       THEN Goto("build") /\ UNCHANGED <<cmds, on_path>>
       ELSE \E o \in run_command(setup_config.command, on_path, is_windows) :
              /\ on_path' = o.tools
              /\ cmds' = Started(cmds, Head(setup_config.command), o, "deps",
                                 setup_config.command, "")
              /\ IF o.ok THEN Goto("build")
                 ELSE IF \A i \in 1..Len(cmds) : cmds[i].kind # "deps"
                 THEN Goto("deps")
                 ELSE Fail("deps")
    /\ UNCHANGED <<parseVars, prompted, fileVars, argVars, setup_config, pending, built, mcp_entry,
                   removed, dirs, is_windows>>

\* roo.py 1140-1184: the dependency-install command
InstallDeps ==
    /\ pc = "deps"
    /\ IF demo_mode
       THEN Goto("build") /\ UNCHANGED <<cmds, on_path>>
       ELSE \E o \in run_command(setup_config.command, on_path, is_windows) :
              /\ on_path' = o.tools
              /\ cmds' = Started(cmds, Head(setup_config.command), o, "deps",
                                 setup_config.command, "")
              /\ IF o.ok THEN Goto("build") ELSE Fail("deps")
    /\ UNCHANGED <<parseVars, prompted, fileVars, argVars, setup_config, pending, built, mcp_entry,
                   removed, dirs, is_windows>>

\* roo.py 1187-1300: the build step, if one is needed
Build ==
    /\ pc = "build"
    /\ LET cmd == BuildCommand(setup_config, Content)
           go  == setup_config.type = "go"
       IN  IF go /\ "go" \notin on_path
           THEN Fail("build") /\ UNCHANGED <<built, cmds, on_path>>      \* roo.py 1213-1216
           ELSE IF cmd = <<>>
           THEN built' = "none" /\ Goto("settings") /\ UNCHANGED <<cmds, on_path>>
           ELSE IF demo_mode
           THEN /\ built' = IF go THEN "set" ELSE "none"
                /\ Goto("settings") /\ UNCHANGED <<cmds, on_path>>
           ELSE \E o \in run_command(cmd, on_path, is_windows), stderr \in {"", CHMOD_ERROR} :
                  /\ stderr # "" => o.started /\ ~o.ok   \* what stderr of a failure says
                  /\ on_path' = o.tools
                  /\ cmds' = WithStderr(Started(cmds, Head(cmd), o, "build", cmd, ""), o,
                                        stderr)
                  /\ IF o.ok
                     THEN built' = (IF go THEN "set" ELSE "none") /\ Goto("settings")
                     ELSE IF o.started /\ ChmodTolerated(is_windows, stderr, setup_config.type)
                     THEN built' = "none" /\ Goto("settings")           \* roo.py 1262-1267
                     ELSE built' = "none" /\ Fail("build")
    /\ UNCHANGED <<parseVars, prompted, fileVars, argVars, setup_config, pending, mcp_entry, removed,
                   dirs, is_windows>>

\* (variant: the run command is always detected, a built executable or not)
ReadRegistry_AlwaysDetects ==
    /\ pc = "settings"
    /\ loaded' = Loaded(read_settings(settings_file))
    /\ IF built = "unbound"
       THEN Fail("resolve") /\ UNCHANGED mcp_entry
       ELSE LET go  == built = "set"
                run == detect_run_command(Content, on_path)
            IN  /\ mcp_entry' = McpEntry(run, go, parsed, calls)
                /\ Goto("env")
    /\ UNCHANGED <<parseVars, prompted, settings_file, argVars, setup_config, pending, built, cmds,
                   removed, worldVars>>

\* roo.py 1317-1380: the settings file is read, the run command determined
\* and the entry built.  built_executable_path is bound only on the path
\* through roo.py 1188, and reading it unbound raises.
ReadRegistry ==
    /\ pc = "settings"
    /\ loaded' = Loaded(read_settings(settings_file))
    /\ IF built = "unbound"
       THEN Fail("resolve") /\ UNCHANGED mcp_entry
       ELSE LET go  == built = "set"
                run == IF go THEN <<GoOutputPath(parsed, is_windows), S_stdio>>
                       ELSE detect_run_command(Content, on_path)
            IN  /\ mcp_entry' = McpEntry(run, go, parsed, calls)
                /\ Goto("env")
    /\ UNCHANGED <<parseVars, prompted, settings_file, argVars, setup_config, pending, built, cmds,
                   removed, worldVars>>

\* roo.py 1382-1472: the env requirements are found and prompted for; a
\* prompt that raises ends the call
ConfigureEnv ==
    /\ pc = "env"
    /\ LET req == IF skip_env_config THEN <<>> ELSE EnvRequirements(Content)
       IN  \/ \E answers \in [1..Len(req) -> EnvValues] :
                /\ prompted' = [i \in 1..Len(req) |-> [var |-> req[i], value |-> answers[i]]]
                /\ mcp_entry' = DictSet(mcp_entry, <<"env">>,
                                        EnvVarsToSet(req, answers, JObj(<<>>)))
                /\ Goto("save")
           \/ /\ req # <<>>
              /\ Fail("env") /\ UNCHANGED <<mcp_entry, prompted>>
    /\ UNCHANGED <<parseVars, fileVars, argVars, setup_config, pending, built, cmds,
                   removed, worldVars>>

\* (variant: the write is not skipped in demo mode)
Save_WritesInDemo ==
    /\ pc = "save"
    /\ loaded' = [loaded EXCEPT !.data = DropLegacy(StoreEntry(@, Name, mcp_entry))]
    /\ \/ settings_file' = FileOf(<<>>) /\ Goto("write")
       \/ Fail("save") /\ UNCHANGED settings_file
    /\ UNCHANGED <<parseVars, argVars, workVars, worldVars>>

\* roo.py 1474-1495 and 184-187: the entry is stored in settings_data; a real
\* run opens the settings file for writing, which empties it
Save ==
    /\ pc = "save"
    /\ loaded' = [loaded EXCEPT !.data = DropLegacy(StoreEntry(@, Name, mcp_entry))]
    /\ IF demo_mode
       THEN Succeed /\ UNCHANGED settings_file
       ELSE \/ settings_file' = FileOf(<<>>) /\ Goto("write")
            \/ Fail("save") /\ UNCHANGED settings_file        \* open() raises
    /\ UNCHANGED <<parseVars, argVars, workVars, worldVars>>

\* (variant: a failed write is only logged)
WriteDump_SwallowsError ==
    /\ pc = "write"
    /\ LET text == Dump(loaded.data)
       IN  \/ settings_file' = FileOf(text) /\ Succeed
           \/ \E n \in 0..MaxCut :
                /\ n < Len(text)
                /\ settings_file' = FileOf(SubSeq(text, 1, n))
                /\ Succeed
    /\ UNCHANGED <<parseVars, loaded, argVars, workVars, worldVars>>

\* roo.py 188-192 and 1484-1492: json.dump writes the document, or fails
\* part-way and leaves what it had written
WriteDump ==
    /\ pc = "write"
    /\ LET text == Dump(loaded.data)
       IN  \/ settings_file' = FileOf(text) /\ Succeed
           \/ \E n \in 0..MaxCut :
                /\ n < Len(text)
                /\ settings_file' = FileOf(SubSeq(text, 1, n))
                /\ Fail("save")
    /\ UNCHANGED <<parseVars, loaded, argVars, workVars, worldVars>>

Next ==
    \/ \E ref \in PipeRefs, demo \in BOOLEAN, skip \in BOOLEAN : Start(ref, demo, skip)
    \/ Clean
    \/ Clone
    \/ Detect
    \/ Precheck
    \/ InstallDeps
    \/ Build
    \/ ReadRegistry
    \/ ConfigureEnv
    \/ Save
    \/ WriteDump

Spec == Init /\ [][Next]_vars

\* roo.py 991-1565: the statements of one call run one after the other, and
\* every external command and every prompt returns, so a call that has
\* begun takes its next step
Stage ==
    \/ Clean \/ Clone \/ Detect \/ Precheck \/ InstallDeps \/ Build
    \/ ConfigureEnv \/ Save \/ WriteDump

\* roo.py 1317-1380: the step that leaves the settings stage; under
\* [][Next]_vars it is a ReadRegistry step, and ReadRegistry is enabled
\* in every state of that stage (StepFromSettingsIsReadRegistry)
ReadRegistryReturns == pc = "settings" /\ pc' \in {"env", "idle"}

StepFromSettingsIsReadRegistry == [][ReadRegistryReturns <=> ReadRegistry]_vars

MaxLiveCalls == 1       \* install_mcp calls in one behaviour of SpecLive

NextLive ==
    \/ /\ calls < MaxLiveCalls
       /\ \E ref \in PipeRefs, demo \in BOOLEAN, skip \in BOOLEAN : Start(ref, demo, skip)
    \/ Stage
    \/ ReadRegistry

SpecLive == Init /\ [][NextLive]_vars /\ WF_vars(Stage) /\ WF_pc(ReadRegistryReturns)

\* roo.py 1632-1661: main's exit code for an install command, from what
\* install_mcp returned
main_exit_code(returned) == IF returned # "true" THEN 1 ELSE 0

(***************************************************************************)
(* Claims about parse_repo_input (checked under SpecParse)                 *)
(***************************************************************************)
PlainRepos == {widget, tools, <<"a","p","p">>}

IsUrlRef(s) == StartsWith(s, HTTP) \/ StartsWith(s, HTTPS)

\* C1: every reference https://github.com/<owner>/<repo>:<subdir> parses to
\* clone URL https://github.com/<owner>/<repo>.git, project name <repo> and
\* subdirectory <subdir> (so acme/widget:tools gives widget and tools).
C1_GithubUrlSubdir ==
    \A o \in Owners, r \in PlainRepos, s \in Subdirs :
        (parsed.done /\ repo_input = GH_PREFIX \o o \o <<"/">> \o r \o <<":">> \o s)
            => parsed = Done(ParseOk(GH_PREFIX \o o \o <<"/">> \o r \o DOTGIT, r, s))

\* C6: every shorthand <owner>/<repo> with non-empty owner and repo parses to
\* clone URL https://github.com/<owner>/<repo>.git and project name <repo>.
C6_ShorthandUrlAndName ==
    \A o \in Owners, r \in Repos \ {<<"r">> \o DOTGIT} :
        (parsed.done /\ repo_input = o \o <<"/">> \o r)
            => /\ parsed.ok
               /\ parsed.git_url = GH_PREFIX \o o \o <<"/">> \o r \o DOTGIT
               /\ parsed.repo_name = r

\* C8: every shorthand <owner>/<repo>:<subdir> is split at the colon, giving
\* subdirectory <subdir>, project name <repo> and the github clone URL,
\* whatever the last character of <repo> is.
C8_ShorthandSubdirSplit ==
    \A o \in Owners, r \in PlainRepos, s \in Subdirs :
        (parsed.done /\ repo_input = o \o <<"/">> \o r \o <<":">> \o s)
            => parsed = Done(ParseOk(GH_PREFIX \o o \o <<"/">> \o r \o DOTGIT, r, s))

\* C9 as stated: every accepted reference starting with http:// or https://
\* comes back as the clone URL unmodified.
C9_UrlPassedThrough ==
    (parsed.done /\ parsed.ok /\ IsUrlRef(repo_input)) => parsed.git_url = repo_input

\* C9 (amended): an accepted http(s) reference whose host is not github.com
\* comes back as the clone URL unmodified but for surrounding whitespace; a
\* github.com URL is rebuilt as https://github.com/<owner>/<repo>.git from
\* its first two path segments, '.git' removed from the second.
C9_OnlyOtherHostsPassThrough ==
    (parsed.done /\ parsed.ok /\ IsUrlRef(repo_input)) =>
        LET u    == urlparse(Strip(repo_input))
            segs == SplitOn(StripChar(u.path, "/"), "/")
        IN  IF u.netloc = GITHUB
            THEN /\ Len(segs) >= 2
                 /\ parsed.git_url = GH_PREFIX \o segs[1] \o <<"/">>
                                        \o RemoveAll(segs[2], DOTGIT) \o DOTGIT
            ELSE parsed.git_url = Strip(repo_input)

C9_Witness ==
    /\ parsed.done /\ parsed.ok
    /\ repo_input = HTTPS \o GITLAB \o <<"/">> \o acme \o <<"/">> \o widget \o <<" ">>
    /\ parsed.git_url = HTTPS \o GITLAB \o <<"/">> \o acme \o <<"/">> \o widget

(***************************************************************************)
(* Claims about read_settings (checked under SpecSettings)                 *)
(***************************************************************************)
TextIn(docs) == {Dump(d) : d \in docs} \cup {Padded(Dump(d)) : d \in docs}

\* C10: read_settings never raises; a missing, empty, whitespace-only or
\* malformed file and a top-level value that is not an object give exactly
\* {mcpServers: {}}; an object whose mcpServers is absent or not an object
\* gives a registry whose mcpServers is {}.
C10_ReadSettingsNeverRaises ==
    loaded.done =>
        /\ ~loaded.raised
        /\ (\/ ~settings_file.exists
            \/ settings_file.text \in BlankTexts \cup MalformedTexts
            \/ settings_file.text \in TextIn(NonObjects))
                => loaded.data = default_config
        /\ (settings_file.readable
             /\ settings_file.text \in TextIn(ObjectsWithout \cup ObjectsWith(BadServers)))
                => /\ IsDict(loaded.data)
                   /\ DictHas(loaded.data, K_mcpServers)
                   /\ DictGet(loaded.data, K_mcpServers) = JObj(<<>>)

C10_Witness ==
    /\ loaded.done
    /\ settings_file = FileOf(Dump(JObj(<< <<K_theme, JStr(<<"dark">>)>>,
                                          <<K_mcpServers, JList(<<SampleEntry>>)>> >>)))
    /\ loaded.data = JObj(<< <<K_theme, JStr(<<"dark">>)>>,
                             <<K_mcpServers, JObj(<<>>)>> >>)

\* documents whose only top-level member is a legacy servers list
LegacyOnlyDocs == {d \in ObjectsWithout : DictKeys(d) = <<K_servers>>}

\* C11: read_settings on a file whose top-level object has a legacy servers
\* list and no mcpServers key raises nothing and returns exactly
\* {mcpServers: {}}: the list is not merged into mcpServers and is not in
\* the returned registry.
C11_LegacyServersNotReturned ==
    (loaded.done /\ settings_file.readable
     /\ settings_file.text \in TextIn(LegacyOnlyDocs))
    => /\ ~loaded.raised
       /\ DictGet(loaded.data, K_mcpServers) = JObj(<<>>)
       /\ ~DictHas(loaded.data, K_servers)
       /\ loaded.data = default_config


(***************************************************************************)
(* Claims about install_mcp                                                *)
(***************************************************************************)
CallReturned == calls > 0 /\ pc = "idle"


\* the clone of the current call, if it was started
CloneCmds == SelectSeq(cmds, LAMBDA c : c.kind = "clone")

\* the servers of the registry on disk, as read_settings gives them
ServersOnDisk == DictGet(read_settings(settings_file).data, K_mcpServers)

EntriesNamed(n) == {i \in 1..Len(ServersOnDisk.v) : ServersOnDisk.v[i][1] = n}

\* C2: when the directory cloned by the call holds none of the ecosystem
\* marker files, and the clone, the env prompts and the write do not fail,
\* install_mcp runs no dependency-install or build command and returns
\* success with the entry written to the registry.
C2_NoMarkerInstallSucceeds ==
    (/\ CallReturned /\ parsed.ok
     /\ failed_at \notin {"clone", "env", "save"}
     /\ dirs[Name].gen = calls
     /\ dirs[Name].content.files \cap MarkerFiles = {})
    => /\ \A i \in 1..Len(cmds) : cmds[i].kind \notin {"deps", "build"}
       /\ result = "true"
       /\ DictHas(ServersOnDisk, Name)

\* C3: a call that failed while parsing, cloning, detecting the project
\* type, pre-checking tools, installing dependencies or building has left
\* the registry file as it was before the call (absent if it was absent).
C3_EarlyFailureLeavesRegistry ==
    (CallReturned /\ result = "false"
     /\ failed_at \in {"parse", "clone", "detect", "precheck", "deps", "build"})
    => settings_file = reg_before

C3_Witness ==
    /\ CallReturned /\ result = "false" /\ failed_at = "build"
    /\ settings_file # NoFile /\ cmds # <<>>

\* C4: from the moment a real call has begun, through write_settings and
\* after it, the registry file holds the complete registry it held before
\* the call or the complete new registry, never less.
C4_RegistryWriteAtomic ==
    (calls > 0 /\ ~demo_mode)
    => \/ settings_file = reg_before
       \/ loaded.done /\ settings_file = FileOf(Dump(loaded.data))

\* both of two consecutive real installs of one reference have succeeded
SecondInstallDone ==
    /\ CallReturned /\ result = "true" /\ ~demo_mode
    /\ prev_call.valid /\ prev_call.ok /\ ~prev_call.demo
    /\ prev_call.ref = repo_input

\* the registry holds one entry under the name, the one this call built
OnlySecondEntry ==
    /\ Cardinality(EntriesNamed(Name)) = 1
    /\ DictGet(ServersOnDisk, Name) = mcp_entry

\* C5 (as stated): after two successful real installs of the same reference
\* the registry holds exactly the second run's entry under the name, once,
\* and the first run's install directory was removed before the second
\* clone.
C5_SecondInstallReplaces ==
    SecondInstallDone
    => /\ OnlySecondEntry
       /\ Name \in removed
       /\ \A i \in 1..Len(CloneCmds) : CloneCmds[i].dest = "absent"

\* C5 (amended): after two successful real installs of the same reference
\* the registry holds exactly the second run's entry under the name, once,
\* and the second clone found nothing of the first run's install directory:
\* the directory was gone or empty, and what it holds now is the second
\* clone.
C5_SecondInstallReplacesContent ==
    SecondInstallDone
    => /\ OnlySecondEntry
       /\ \A i \in 1..Len(CloneCmds) : CloneCmds[i].dest \in {"absent", "empty"}
       /\ CloneCmds # <<>>
       /\ dirs[Name].exists /\ dirs[Name].gen = calls

C5_Witness ==
    /\ SecondInstallDone
    /\ \E i \in 1..Len(CloneCmds) : CloneCmds[i].dest = "empty"
    /\ DictGet(mcp_entry, <<"env">>) # JObj(<<>>)

\* references that are empty, blank, or a name without '/' and not a URL
RejectedRefs == {r \in PipeRefs : Strip(r) = <<>> \/ (Find(r, "/") = 0 /\ ~IsUrlRef(r))}

\* C7: an empty or whitespace-only reference and a bare name are rejected by
\* parse_repo_input, and install_mcp then returns failure having removed no
\* directory, started no command and left the registry file as it was.
C7_InvalidReferenceNoEffects ==
    (CallReturned /\ repo_input \in RejectedRefs)
    => /\ ~parsed.ok
       /\ result = "false" /\ failed_at = "parse"
       /\ removed = {} /\ cmds = <<>>
       /\ settings_file = reg_before

C7_Witness ==
    /\ CallReturned /\ repo_input = widget /\ result = "false"
    /\ prev_call.valid /\ prev_call.ok /\ ~prev_call.demo
    /\ \E n \in PipeNames : dirs[n].exists

\* what json.loads makes of the registry file as it is on disk
RegistryOnDisk == json_loads(settings_file.text)

\* C12: after every completed write of install_mcp the registry file is a
\* JSON object with a top-level mcpServers member that is an object and
\* without a top-level servers member, whatever the file held before.
C12_WrittenRegistryShape ==
    (CallReturned /\ result = "true" /\ ~demo_mode)
    => /\ settings_file.exists
       /\ RegistryOnDisk.ok /\ IsDict(RegistryOnDisk.val)
       /\ DictHas(RegistryOnDisk.val, K_mcpServers)
       /\ IsDict(DictGet(RegistryOnDisk.val, K_mcpServers))
       /\ ~DictHas(RegistryOnDisk.val, K_servers)

C12_Witness ==
    /\ CallReturned /\ result = "true" /\ ~demo_mode
    /\ reg_before.exists
    /\ ~IsDict(DictGet(json_loads(reg_before.text).val, K_mcpServers))
    /\ DictHas(json_loads(reg_before.text).val, K_servers)
    /\ DictKeys(DictGet(RegistryOnDisk.val, K_mcpServers)) = <<Name>>

(***************************************************************************)
(* Claims about write_settings and read_settings together                  *)
(* (checked under SpecRoundTrip)                                           *)
(***************************************************************************)
\* C13: when write_settings(path, r) has returned, read_settings(path)
\* raises nothing and returns a registry equal to r.
C13_WriteReadRoundTrip ==
    (pc = "written" /\ loaded.done)
    => /\ ~loaded.raised
       /\ loaded.data = registry

C13_Witness ==
    /\ pc = "written" /\ loaded.done
    /\ loaded.data = registry
    /\ DictHas(registry, K_theme)
    /\ Len(DictGet(registry, K_mcpServers).v) = 2
    /\ DictHas(DictGet(DictGet(registry, K_mcpServers), widget), <<"env">>)
    /\ DictGet(DictGet(DictGet(registry, K_mcpServers), widget), <<"env">>) = JNull

(***************************************************************************)
(* Further claims about install_mcp (checked under Spec)                   *)
(***************************************************************************)
\* C14: a real call whose registry write failed (open or json.dump raised)
\* returns failure and the command exits with 1; a real call returns
\* success, and the command exits with 0, only when write_settings has
\* written the whole new registry.
C14_WriteFailureIsFailure ==
    /\ (CallReturned /\ failed_at = "save")
         => result = "false" /\ main_exit_code(result) = 1
    /\ (CallReturned /\ ~demo_mode /\ main_exit_code(result) = 0)
         => /\ result = "true"
            /\ settings_file = FileOf(Dump(loaded.data))
            /\ DictGet(DictGet(loaded.data, K_mcpServers), Name) = mcp_entry

C14_Witness ==
    /\ CallReturned /\ failed_at = "save" /\ main_exit_code(result) = 1
    /\ settings_file.exists /\ settings_file # reg_before
    /\ settings_file # FileOf(Dump(loaded.data))

(***************************************************************************)
(* Claims about env-requirement discovery (checked under SpecEnv)          *)
(***************************************************************************)
\* what each source yields, in priority order
Yields(w) == <<McpJsonEnvKeys(w.mcp_json), parse_env_example(w.env_example),
               parse_readme_for_env_vars(FirstReadme(w))>>

\* the files of the source with the given priority
SourceNames(i) == IF i = 1 THEN {F_mcp_json} ELSE IF i = 2 THEN {F_env_example} ELSE READMES

\* C15: discovery returns the list of the first of mcp.json's env object,
\* .env.example and the first existing README that yields a non-empty
\* list, and reads no source of lower priority than that one; a
\* .env.example holding API_KEY= with a README block {"env":{"OTHER":""}}
\* gives exactly [API_KEY].
C15_EnvSourcePriority ==
    (discovered.done /\ discovered.op = "discover")
    => /\ \A i \in 1..3 :
            (Yields(workdir)[i] # <<>> /\ \A j \in 1..(i - 1) : Yields(workdir)[j] = <<>>)
            => /\ discovered.vars = Yields(workdir)[i]
               /\ \A k \in (i + 1)..3, n \in 1..Len(discovered.read) :
                     discovered.read[n] \notin SourceNames(k)
               /\ \E n \in 1..Len(discovered.read) : discovered.read[n] \in SourceNames(i)
       /\ (\A i \in 1..3 : Yields(workdir)[i] = <<>>) => discovered.vars = <<>>
       /\ (/\ ~workdir.mcp_json.exists
           /\ workdir.env_example = [exists |-> TRUE, readable |-> TRUE,
                                     lines |-> <<API_KEY \o <<"=">>>>]
           /\ FirstReadme(workdir) = ReadmeOf(<<B_other>>))
          => discovered.vars = <<API_KEY>>

C15_Witness ==
    /\ discovered.done /\ discovered.op = "discover"
    /\ ~workdir.mcp_json.exists
    /\ workdir.env_example.lines = <<API_KEY \o <<"=">>>> /\ workdir.env_example.readable
    /\ FirstReadme(workdir) = ReadmeOf(<<B_other>>)
    /\ discovered.vars = <<API_KEY>>
    /\ discovered.read = <<F_env_example>>

\* every value inside v, v included
RECURSIVE SubValues(_)
SubValues(v) ==
    {v} \cup (IF v.t = "obj" THEN UNION {SubValues(v.v[i][2]) : i \in 1..Len(v.v)}
              ELSE IF v.t = "list" THEN UNION {SubValues(v.v[i]) : i \in 1..Len(v.v)}
              ELSE {})

\* the keys of every object that is the value of a key env somewhere in v
EnvKeysAnywhere(v) ==
    UNION {{DictGet(o, K_env).v[i][1] : i \in 1..Len(DictGet(o, K_env).v)} :
             o \in {x \in SubValues(v) : IsDict(x) /\ DictHas(x, K_env)
                                         /\ IsDict(DictGet(x, K_env))}}

NameIndex(n) == CHOOSE i \in 1..Len(NameOrder) : NameOrder[i] = n

\* C16: parse_readme_for_env_vars returns, sorted and without duplicates,
\* the keys of every env object at any depth of every block that parses;
\* blocks that do not parse add nothing and do not end the scan; the block
\* {"a":{"env":{"X":1}},"b":{"env":{"Y":2}}} gives [X, Y].
C16_ReadmeEnvKeys ==
    (discovered.done /\ discovered.op = "readme"
     /\ workdir.readmes[discovered.read[1]].readable)
    => LET blocks == workdir.readmes[discovered.read[1]].blocks
           want   == UNION {EnvKeysAnywhere(json_loads(blocks[i]).val) :
                              i \in {j \in 1..Len(blocks) : json_loads(blocks[j]).ok}}
           got    == discovered.vars
       IN  /\ {got[i] : i \in 1..Len(got)} = want
           /\ \A i \in 1..Len(got), j \in 1..Len(got) :
                 i < j => NameIndex(got[i]) < NameIndex(got[j])
           /\ blocks = <<B_claim>> => got = <<N_X, N_Y>>

C16_Witness ==
    /\ discovered.done /\ discovered.op = "readme"
    /\ workdir.readmes[discovered.read[1]].blocks = <<B_nested, <<WS_TOK>>, B_list>>
    /\ discovered.vars = <<N_X, N_Y, N_Z>>

(***************************************************************************)
(* Claims about detect_project_type                                        *)
(***************************************************************************)
\* the descriptor detect_project_type stops at: the first whose marker exists
FirstMarker(files) ==
    CHOOSE i \in 1..Len(PACKAGE_MANAGERS) :
        /\ PACKAGE_MANAGERS[i].detect_file \in files
        /\ \A j \in 1..(i - 1) : PACKAGE_MANAGERS[j].detect_file \notin files

\* the primary tool of a descriptor and the tools of its alternates
ToolsFor(i) ==
    {Head(PACKAGE_MANAGERS[i].command)}
    \cup {PACKAGE_MANAGERS[i].alternatives[k].detect_cmd :
             k \in 1..Len(PACKAGE_MANAGERS[i].alternatives)}

DetectTools == UNION {ToolsFor(i) : i \in 1..Len(PACKAGE_MANAGERS)}

\* over every set of marker files and every set of resolvable tools: a
\* result has an install command exactly when it is not an error, and it is
\* an error when none of the tools of the first marker resolves
DetectResultsExclusive ==
    \A files \in SUBSET MarkerFiles, tl \in SUBSET DetectTools :
        LET r == detect_project_type([EmptyContent EXCEPT !.files = files], tl)
        IN  /\ r.kind = "error" => r.command = <<>>
            /\ r.kind = "ok" <=> r.command # <<>>
            /\ (files # {} /\ ToolsFor(FirstMarker(files)) \cap tl = {})
                  => r.kind = "error" /\ r.command = <<>>

\* C17: when the first marker file of the directory has neither its primary
\* tool nor an alternate on the search path, detect_project_type returns an
\* error without an install command; no result has both; and install_mcp
\* then returns failure having started no dependency-install, build or
\* tool-install command.
C17_DetectErrorAborts ==
    /\ DetectResultsExclusive
    /\ (pc \notin {"idle", "clean", "clone", "detect"}
         /\ Content.files \cap MarkerFiles # {})
       => ToolsFor(FirstMarker(Content.files)) \cap on_path # {}
    /\ setup_config.kind = "error"
       => /\ pc = "idle" /\ result = "false" /\ failed_at = "detect"
          /\ setup_config.command = <<>>
          /\ \A i \in 1..Len(cmds) : cmds[i].kind \notin {"deps", "build", "tool"}

C17_Witness ==
    /\ CallReturned /\ ~demo_mode /\ setup_config.kind = "error"
    /\ setup_config.type = "go"
    /\ Content.files \cap MarkerFiles = {F_go_mod} /\ "go" \notin on_path
    /\ Len(CloneCmds) = 1

RequestedStarts == {i \in 1..Len(tool_call.procs) : tool_call.procs[i].kind = "run"}

\* C19: run_command has started the requested process only when
\* check_and_install_tool reported the executable available, and then as
\* the last process of the call, with the executable on the search path;
\* when the check reported it unavailable, run_command raised
\* FileNotFoundError and the requested process was not started.
C19_RunOnlyAfterToolCheck ==
    (tool_call.fn = "run_command" /\ tool_call.cmd # <<>>)
    => /\ RequestedStarts # {}
          => /\ tool_call.returned
             /\ RequestedStarts = {Len(tool_call.procs)}
             /\ tool_call.procs[Len(tool_call.procs)].cmd = tool_call.cmd
             /\ tool_call.exe \in on_path
       /\ ~tool_call.returned
          => /\ tool_call.error = "FileNotFoundError"
             /\ RequestedStarts = {}
             /\ tool_call.exe \notin tool_call.before
       /\ tool_call.returned
          => RequestedStarts # {} /\ tool_call.error # "FileNotFoundError"

C19_Witness ==
    /\ tool_call.fn = "run_command" /\ tool_call.cmd = <<"go", "mod", "download">>
    /\ "go" \notin tool_call.before /\ ~tool_call.returned
    /\ tool_call.error = "FileNotFoundError"
    /\ tool_call.procs = <<>>

\* C20: check_and_install_tool has run an install command only when the
\* tool was missing, has an install command and the prompt was confirmed;
\* for a missing tool without a known install command, for git, for a
\* declined prompt and for a prompt that raised, it returned false having
\* run nothing and left the search path as it was.
C20_InstallOnlyWhenConfirmed ==
    tool_call.fn = "check_and_install_tool"
    => /\ tool_call.procs # <<>>
          => /\ tool_call.answer = "yes"
             /\ tool_call.exe \notin tool_call.before
             /\ tool_call.exe \in {"bun", "npm", "tsc", "webpack"}
             /\ tool_call.procs = <<ToolCmd(tool_call.exe)>>
       /\ (/\ tool_call.exe \notin tool_call.before
           /\ \/ tool_call.exe \notin {"bun", "npm", "tsc", "webpack"}
              \/ tool_call.answer \in {"no", "raises"})
          => /\ tool_call.returned = FALSE
             /\ tool_call.error = "none"
             /\ tool_call.procs = <<>>
             /\ on_path = tool_call.before

C20_Witness ==
    /\ tool_call.fn = "check_and_install_tool" /\ tool_call.exe = "tsc"
    /\ tool_call.answer = "raises" /\ "tsc" \notin tool_call.before
    /\ "npm" \in tool_call.before
    /\ tool_call.returned = FALSE /\ tool_call.procs = <<>>

\* the install commands the call has run
InstallsRun == {i \in 1..Len(tool_call.procs) : tool_call.procs[i].kind = "tool"}

\* C21: check_and_install_tool has returned true only with the tool on the
\* search path: found at the first lookup with nothing run, or found again
\* after a confirmed install command that exited with 0.  After an install
\* command that exited non-zero, or exited with 0 leaving the tool
\* unresolvable, it returned false; no call ran the install command twice.
C21_TrueOnlyIfToolResolves ==
    tool_call.fn = "check_and_install_tool"
    => /\ tool_call.returned
          => /\ tool_call.exe \in on_path
             /\ \/ tool_call.exe \in tool_call.before /\ InstallsRun = {}
                \/ /\ tool_call.exe \notin tool_call.before
                   /\ tool_call.answer = "yes"
                   /\ InstallsRun # {} /\ tool_call.exit = "zero"
       /\ (InstallsRun # {} /\ tool_call.exit = "nonzero") => ~tool_call.returned
       /\ (InstallsRun # {} /\ tool_call.exit = "zero" /\ tool_call.exe \notin on_path)
          => ~tool_call.returned
       /\ Cardinality(InstallsRun) <= 1
       /\ InstallsRun # {} <=> tool_call.exit # "none"

C21_Witness ==
    /\ tool_call.fn = "check_and_install_tool" /\ tool_call.exe = "bun"
    /\ tool_call.answer = "yes" /\ tool_call.exit = "zero"
    /\ "bun" \notin on_path /\ ~tool_call.returned
    /\ tool_call.procs = <<ToolCmd("bun")>>

(***************************************************************************)
(* Claims about merge_configs (under SpecMerge)                            *)
(***************************************************************************)
\* the configs merge_configs does not skip
DictConfigs == {i \in 1..Len(configs) : IsDict(configs[i])}

\* the last config that defines the top-level key
LastWith(key) ==
    CHOOSE i \in DictConfigs :
        /\ DictHas(configs[i], key)
        /\ \A j \in DictConfigs : DictHas(configs[j], key) => j <= i

TopKeys == UNION {{configs[i].v[k][1] : k \in 1..Len(configs[i].v)} : i \in DictConfigs}

\* the configs whose env section is well-formed: a dict of dicts
EnvOf(i) == DictGet(configs[i], K_env)

WellFormedEnvs ==
    \A i \in DictConfigs :
        DictHas(configs[i], K_env)
        => /\ IsDict(EnvOf(i))
           /\ \A k \in 1..Len(EnvOf(i).v) : IsDict(EnvOf(i).v[k][2])

\* the configs that define variable var of group g
Defining(g, var) ==
    {i \in DictConfigs : /\ DictHas(configs[i], K_env)
                         /\ DictHas(EnvOf(i), g)
                         /\ DictHas(DictGet(EnvOf(i), g), var)}

Max(S) == CHOOSE i \in S : \A j \in S : j <= i

EnvGroups == UNION {{EnvOf(i).v[k][1] : k \in 1..Len(EnvOf(i).v)} :
                      i \in {j \in DictConfigs : DictHas(configs[j], K_env)}}

GroupVars(g) ==
    UNION {{DictGet(EnvOf(i), g).v[k][1] : k \in 1..Len(DictGet(EnvOf(i), g).v)} :
             i \in {j \in DictConfigs : /\ DictHas(configs[j], K_env)
                                         /\ DictHas(EnvOf(j), g)}}

\* the env part of the claim: every group holds, for each of its variables,
\* the value of the last config that defines it
EnvDeepMerged ==
    \A g \in EnvGroups :
        /\ DictHas(DictGet(merged.data, K_env), g)
        /\ \A var \in GroupVars(g) :
              /\ DictHas(DictGet(DictGet(merged.data, K_env), g), var)
              /\ DictGet(DictGet(DictGet(merged.data, K_env), g), var)
                    = DictGet(DictGet(EnvOf(Max(Defining(g, var))), g), var)

EntryOnDisk == DictGet(ServersOnDisk, Name)

\* C23: a call that detected a project type, got through the pre-check, the
\* dependency install and the build without a built executable, and finds
\* no run command, still builds its entry, with the placeholder command and
\* no args; unless an env prompt or the write fails it returns success, and
\* a real call has then written that entry.
C23_NoRunCommandIsNotFatal ==
    (/\ calls > 0 /\ parsed.ok /\ setup_config.kind = "ok" /\ built = "none"
     /\ pc \in {"idle", "env", "save", "write"}
     /\ failed_at \notin {"precheck", "deps", "build"}
     /\ detect_run_command(Content, on_path) = <<>>)
    => /\ mcp_entry # JNull
       /\ DictGet(mcp_entry, <<"command">>) = JStr(PLACEHOLDER)
       /\ DictGet(mcp_entry, <<"args">>) = JList(<<>>)
       /\ failed_at \in {"", "env", "save"}
       /\ (pc = "idle" /\ failed_at = "")
          => /\ result = "true"
             /\ ~demo_mode
                => /\ DictHas(ServersOnDisk, Name)
                   /\ DictGet(EntryOnDisk, <<"command">>) = JStr(PLACEHOLDER)
                   /\ DictGet(EntryOnDisk, <<"args">>) = JList(<<>>)

C23_Witness ==
    /\ CallReturned /\ ~demo_mode /\ result = "true"
    /\ setup_config.kind = "ok" /\ built = "none"
    /\ Len(SelectSeq(cmds, LAMBDA c : c.kind = "deps")) = 1
    /\ detect_run_command(Content, on_path) = <<>>
    /\ DictGet(EntryOnDisk, <<"command">>) = JStr(PLACEHOLDER)

\* C24: once the build stage has produced an executable, the entry's
\* command is the path of that executable and its args are ["stdio"],
\* whatever detect_run_command would give for the working directory; a
\* real call that succeeds has written that entry.
C24_BuiltExecutableWins ==
    (calls > 0 /\ built = "set" /\ mcp_entry # JNull)
    => /\ setup_config.type = "go"
       /\ DictGet(mcp_entry, <<"command">>) = JStr(GoOutputPath(parsed, is_windows))
       /\ DictGet(mcp_entry, <<"args">>) = JList(<<JStr(S_stdio)>>)
       /\ (CallReturned /\ result = "true" /\ ~demo_mode)
          => /\ DictGet(EntryOnDisk, <<"command">>)
                  = JStr(GoOutputPath(parsed, is_windows))
             /\ DictGet(EntryOnDisk, <<"args">>) = JList(<<JStr(S_stdio)>>)

C24_Witness ==
    /\ CallReturned /\ result = "true" /\ ~demo_mode /\ built = "set"
    /\ <<"main.py">> \in Content.files /\ F_go_mod \in Content.files
    /\ detect_run_command(Content, on_path) # <<>>
    /\ detect_run_command(Content, on_path)[1] # GoOutputPath(parsed, is_windows)
    /\ DictGet(EntryOnDisk, <<"command">>) = JStr(GoOutputPath(parsed, is_windows))

\* the order of the stages of one call; the pre-check of tools belongs to
\* the dependency install, reading the registry to the run-command resolution
StageRank ==
    [idle |-> 0, clean |-> 1, clone |-> 2, detect |-> 3, precheck |-> 4, deps |-> 5,
     build |-> 6, settings |-> 7, env |-> 8, save |-> 9, write |-> 10]

CmdsOfKind(log, k) == SelectSeq(log, LAMBDA c : c.kind = k)

IsPrefix(a, b) == Len(a) <= Len(b) /\ SubSeq(b, 1, Len(a)) = a

\* C25: every step of a call moves to a later stage or ends the call (the
\* pre-check alone stays, once per tool); the clone, dependency-install and
\* build commands are started at their own stage and at most once per
\* call; the entry is built and the prompts asked only at the resolution
\* and env stages and the file written only at the persist stage; and once
\* the call has returned nothing more happens until the next call begins.
C25_StagesInOrder ==
    [][/\ pc' # pc => pc' = "idle" \/ StageRank[pc] < StageRank[pc']
       /\ pc' = pc => \/ pc = "idle" /\ calls' = calls + 1
                      \/ pc = "precheck" /\ Len(pending') < Len(pending)
       /\ pc = "idle" => calls' = calls + 1
       /\ calls' = calls
          => /\ IsPrefix(cmds, cmds')
             /\ \A k \in {"clone", "deps", "build"} :
                   /\ Len(CmdsOfKind(cmds', k)) <= 1
                   /\ CmdsOfKind(cmds', k) # CmdsOfKind(cmds, k) => pc = k
             /\ mcp_entry' # mcp_entry => pc \in {"settings", "env"}
             /\ settings_file' # settings_file => pc \in {"save", "write"} /\ ~demo_mode
             /\ dirs' # dirs => pc \in {"clean", "clone"}
       /\ calls' # calls => cmds' = <<>> /\ mcp_entry' = JNull
      ]_vars

C25_Witness ==
    /\ CallReturned /\ ~demo_mode /\ result = "true"
    /\ [i \in 1..Len(cmds) |-> cmds[i].kind] = <<"clone", "deps", "build">>
    /\ DictHas(ServersOnDisk, Name)

\* C26: when a call has returned, every server named in the registry file
\* that these calls can install has its install directory on disk.
C26_RegisteredDirsExist ==
    CallReturned
    => \A n \in PipeNames : DictHas(ServersOnDisk, n) => dirs[n].exists

(***************************************************************************)
(* Claims about the install directory (under SpecParse)                    *)
(***************************************************************************)
\* C27: the project name of every accepted reference is one path component
\* (not empty, without "/", neither "." nor ".."), so that the install
\* directory is a directory directly below the mcps base directory.
C27_InstallDirIsChild ==
    (parsed.done /\ parsed.ok)
    => /\ parsed.repo_name # <<>>
       /\ \A i \in 1..Len(parsed.repo_name) : parsed.repo_name[i] # "/"
       /\ parsed.repo_name \notin {<<".">>, <<".", ".">>}
       /\ get_install_dir(parsed.repo_name) # get_install_dir(<<>>)

(***************************************************************************)
(* Claims about concurrent installs (under SpecRace)                       *)
(***************************************************************************)
BothSucceeded == \A r \in RaceRuns : runs[r].pc = "done" /\ runs[r].result = "true"

SawEntryOf(r, q) == DictHas(DictGet(runs[r].read, K_mcpServers), RaceName(q))

\* C28: no lock covers the read of the registry and its later write: when
\* both of two concurrent installs of differently named servers have
\* reported success and the registry file parses, the call that wrote last
\* has its entry in the file, and the entry of the other call is there only
\* if the last writer had read it, so its write overwrites the other's.
C28_LastWriteOverwrites ==
    \A r, q \in RaceRuns :
        (/\ r # q /\ BothSucceeded /\ runs[r].wrote = 2
         /\ json_loads(settings_file.text).ok)
        => /\ DictHas(ServersOnDisk, RaceName(r))
           /\ DictHas(ServersOnDisk, RaceName(q)) <=> SawEntryOf(r, q)

\* both calls reported success and the registry holds one of the two entries
C28_Witness ==
    /\ BothSucceeded
    /\ json_loads(settings_file.text).ok
    /\ Cardinality({r \in RaceRuns : DictHas(ServersOnDisk, RaceName(r))}) = 1

(***************************************************************************)
(* Claims about what an install leaves alone (under Spec)                  *)
(***************************************************************************)
KeySet(d) == {DictKeys(d)[i] : i \in 1..Len(DictKeys(d))}

RegistryBefore == json_loads(reg_before.text).val

\* the settings file held a registry: an object whose mcpServers is an object
WellFormedBefore ==
    /\ reg_before.exists /\ reg_before.readable
    /\ json_loads(reg_before.text).ok
    /\ IsDict(RegistryBefore)
    /\ DictHas(RegistryBefore, K_mcpServers)
    /\ IsDict(DictGet(RegistryBefore, K_mcpServers))

InstalledForReal == CallReturned /\ result = "true" /\ ~demo_mode

\* C29: a successful install of server N into a well-formed registry changes
\* mcpServers[N] and removes the legacy servers key, nothing else: every
\* other top-level key and every other mcpServers entry of the file is
\* there afterwards with the value it had, and no other key has appeared.
C29_InstallChangesOnlyItsEntry ==
    (InstalledForReal /\ WellFormedBefore)
    => /\ json_loads(settings_file.text).ok
       /\ IsDict(RegistryOnDisk.val)
       /\ KeySet(RegistryOnDisk.val) = KeySet(RegistryBefore) \ {K_servers}
       /\ \A k \in KeySet(RegistryBefore) \ {K_mcpServers, K_servers} :
             DictGet(RegistryOnDisk.val, k) = DictGet(RegistryBefore, k)
       /\ KeySet(ServersOnDisk) = KeySet(DictGet(RegistryBefore, K_mcpServers)) \cup {Name}
       /\ \A n \in KeySet(DictGet(RegistryBefore, K_mcpServers)) \ {Name} :
             DictGet(ServersOnDisk, n) = DictGet(DictGet(RegistryBefore, K_mcpServers), n)

\* an install into a registry with another server, another top-level key
\* and the legacy list
C29_Witness ==
    /\ InstalledForReal /\ WellFormedBefore
    /\ KeySet(DictGet(RegistryBefore, K_mcpServers)) \ {Name} # {}
    /\ KeySet(RegistryBefore) \ {K_mcpServers, K_servers} # {}
    /\ DictHas(RegistryBefore, K_servers)
    /\ DictHas(ServersOnDisk, Name)

(***************************************************************************)
(* Claims about the order of ecosystems (under SpecDetect)                 *)
(***************************************************************************)
\* the alternates of a descriptor whose detect tool resolves
AltHits(config, tl) ==
    {k \in 1..Len(config.alternatives) : config.alternatives[k].detect_cmd \in tl}

\* C30: when marker files coexist the result is decided by the first one in
\* table order alone: the primary command if its tool resolves, else the
\* command of the first alternate whose detect tool resolves, flagged
\* using_alternative, else an error of that ecosystem, whatever tools of
\* later ecosystems resolve.
C30_FirstMarkerDecides ==
    (detect_call.done /\ detect_call.files \cap MarkerFiles # {})
    => LET config == PACKAGE_MANAGERS[FirstMarker(detect_call.files)]
           tl     == detect_call.tools
           r      == detect_call.returned
       IN  /\ r.type = config.name
           /\ Head(config.command) \in tl => r = ConfigOk(config.name, config.command, FALSE)
           /\ (Head(config.command) \notin tl /\ AltHits(config, tl) # {})
                => \E k \in AltHits(config, tl) :
                      /\ \A j \in AltHits(config, tl) : k <= j
                      /\ r = ConfigOk(config.name, config.alternatives[k].command, TRUE)
           /\ (Head(config.command) \notin tl /\ AltHits(config, tl) = {})
                => r = ConfigError(config.name)

\* package.json and go.mod coexist, go resolves and no node package manager
C30_Witness ==
    /\ detect_call.done
    /\ {F_package_json, F_go_mod} \subseteq detect_call.files
    /\ "go" \in detect_call.tools
    /\ detect_call.tools \cap {"npm", "yarn", "pnpm"} = {}
    /\ detect_call.returned = ConfigError("npm")

(***************************************************************************)
(* Claims about detect_run_command (under SpecRun)                         *)
(***************************************************************************)
\* the paths detect_run_command is said to probe, in order
RunCandidates(c) ==
    (IF F_package_json \in c.files
     THEN (IF c.pkg.bin_dict THEN c.pkg.bin ELSE <<>>) \o c.pkg.main \o common_node_files
     ELSE <<>>)
    \o common_python_files \o <<F_go_mod, F_main_go, F_cargo_toml>>

IsIn(x, seq) == \E i \in 1..Len(seq) : seq[i] = x

\* the command that goes with a hit, <<>> when its interpreter is missing
CommandFor(hit, tl) ==
    IF IsIn(hit, common_python_files)
    THEN IF "python3" \in tl THEN <<<<"python3">>, hit, S_stdio>>
         ELSE IF "python" \in tl THEN <<<<"python">>, hit, S_stdio>>
         ELSE <<>>
    ELSE IF hit = F_go_mod
    THEN IF "go" \in tl THEN <<<<"go">>, <<"run">>, <<".">>, S_stdio>> ELSE <<>>
    ELSE IF hit = F_main_go
    THEN IF "go" \in tl THEN <<<<"go">>, <<"run">>, F_main_go, S_stdio>> ELSE <<>>
    ELSE IF hit = F_cargo_toml
    THEN IF "cargo" \in tl THEN <<<<"cargo">>, <<"run">>, <<"--">>, S_stdio>> ELSE <<>>
    ELSE <<<<"node">>, hit, S_stdio>>

FirstHit(c) == FirstIn(RunCandidates(c), c.files)

\* C31: detect_run_command returns the command of the first path present in
\* the fixed order: with a package.json, the bin entries, main, dist/index.js,
\* index.js, src/index.js, server.js; then main.py, app.py, server.py, run.py;
\* then go.mod, main.go, Cargo.toml; a hit whose interpreter does not resolve
\* gives None at once, and None is returned when nothing is present.
C31_FirstHitInFixedOrder ==
    run_detect.done
    => run_detect.returned =
         (IF FirstHit(run_detect.content) = <<>> THEN <<>>
          ELSE CommandFor(FirstHit(run_detect.content)[1], run_detect.tools))

(***************************************************************************)
(* Claims about failing commands (under Spec)                              *)
(***************************************************************************)
\* the clone, dependency-install and build processes that exited non-zero
FailedCmds ==
    {i \in 1..Len(cmds) : /\ cmds[i].kind \in {"clone", "deps", "build"}
                          /\ cmds[i].exit = "nonzero"}

\* a failed build of an npm project on Windows whose stderr has the chmod text
IsChmodWarning(c) ==
    /\ c.kind = "build" /\ c.stderr = CHMOD_ERROR
    /\ is_windows /\ setup_config.type = "npm"

\* C32: a clone, dependency-install or build command that exits non-zero
\* ends the call with failure at that stage, except a build of an npm project
\* on Windows whose stderr says chmod is not recognized: then the call goes
\* on to the run-command resolution.  The same stderr on a POSIX host or
\* from a Go build ends the call with failure.
C32_NonZeroExitFails ==
    \A i \in FailedCmds :
        IF IsChmodWarning(cmds[i])
        THEN /\ failed_at # "build" /\ built = "none"
             /\ pc \in {"settings", "env", "save", "write", "idle"}
        ELSE /\ pc = "idle" /\ result = "false" /\ failed_at = cmds[i].kind
             /\ i = Len(cmds)

\* the install went on after the chmod warning and succeeded
C32_Witness ==
    /\ CallReturned /\ result = "true"
    /\ \E i \in FailedCmds : IsChmodWarning(cmds[i])

(***************************************************************************)
(* Claims about the build step (under Spec)                                *)
(***************************************************************************)
BuildCmds == {i \in 1..Len(cmds) : cmds[i].kind = "build"}

\* the entry point of a package.json: the first bin value when bin is an
\* object, otherwise main
PkgEntry(pkg) ==
    IF ~pkg.bin_dict THEN pkg.main
    ELSE IF pkg.bin = <<>> THEN <<>> ELSE <<Head(pkg.bin)>>

\* what is said to need a build: go, or npm with a build script and an entry
\* point below dist/ or build/
BuildExpected(type, pkg) ==
    \/ type = "go"
    \/ /\ type = "npm" /\ pkg.valid /\ pkg.build
       /\ \E i \in 1..Len(PkgEntry(pkg)) :
             \E j \in 1..Len(PkgEntry(pkg)[i]) : PkgEntry(pkg)[i][j] \in {"dist/", "build/"}

F_build_cli == <<"build/", "cli.js">>

BuildPkgs ==
    {NoPkg} \cup
    {[valid |-> TRUE, tools |-> {}, build |-> b, bin_dict |-> d, bin |-> bin, main |-> main] :
        b \in BOOLEAN, d \in BOOLEAN,
        bin \in {<<>>, <<F_cli>>, <<F_build_cli>>, <<F_cli, F_dist_index>>},
        main \in {<<>>, <<<<"index.js">>>>, <<F_dist_index>>}}

\* the decision over every ecosystem and every package.json of BuildPkgs
BuildDecisions ==
    \A i \in 0..Len(PACKAGE_MANAGERS), pkg \in BuildPkgs :
        LET cfg == IF i = 0 THEN NoConfig
                   ELSE ConfigOk(PACKAGE_MANAGERS[i].name, PACKAGE_MANAGERS[i].command, FALSE)
            c   == [EmptyContent EXCEPT !.pkg = pkg]
        IN  BuildCommand(cfg, c) # <<>> <=> BuildExpected(cfg.type, pkg)

\* the call is not a demo and has got past the build step
PastBuild ==
    /\ ~demo_mode /\ calls > 0
    /\ \/ pc \in {"settings", "env", "save", "write"}
       \/ pc = "idle" /\ (result = "true" \/ failed_at \in {"build", "resolve", "env", "save"})

\* C33: a build command is run exactly when the detected ecosystem is go, or
\* is npm with a build script and an entry point (first bin value when bin is
\* an object, otherwise main) that contains dist/ or build/; none is run for
\* pip, poetry or cargo projects, for other npm projects, or when no
\* ecosystem was detected.
C33_BuildIffNeeded ==
    /\ BuildDecisions
    /\ BuildCmds # {} => BuildExpected(setup_config.type, Content.pkg)
    /\ PastBuild => (BuildCmds # {} <=> BuildExpected(setup_config.type, Content.pkg))

\* an npm project with a build script and main index.js was installed
\* without a build
C33_Witness ==
    /\ CallReturned /\ result = "true" /\ ~demo_mode
    /\ setup_config.type = "npm" /\ Content.pkg.build
    /\ PkgEntry(Content.pkg) = <<<<"index.js">>>>
    /\ BuildCmds = {}
    /\ \E i \in 1..Len(cmds) : cmds[i].kind = "deps"

(***************************************************************************)
(* Claims about demo mode and the install directory (under Spec)           *)
(***************************************************************************)
\* C34: a demo call starts no external process (no clone, tool install,
\* dependency install or build) and removes no install directory, also when
\* an earlier real install left a directory at the target path.
C34_DemoStartsNothing ==
    (calls > 0 /\ demo_mode) => cmds = <<>> /\ removed = {}

\* the clone processes of the current call
ClonesStarted == {i \in 1..Len(cmds) : cmds[i].kind = "clone"}

\* from the clone on, what is at the install path was put there by this call
CloneInPlace == dirs[Name].exists /\ dirs[Name].gen = calls

\* C35 as stated: in a real install the clone starts at a path from which a
\* directory already present has been removed, and a call that fails at the
\* clone or later leaves in place what the clone created.
C35_RemovedBeforeClone ==
    /\ \A i \in ClonesStarted : cmds[i].dest = "absent"
    /\ (CallReturned /\ ~demo_mode /\ result = "false"
         /\ failed_at \in {"detect", "precheck", "deps", "build", "resolve", "env", "save"})
       => CloneInPlace

\* C35, amended: the removal of a directory already present is attempted
\* before the clone starts and no process starts before it; the clone starts
\* at a path that still holds a directory only when that removal failed, and
\* a clone that succeeded found the path absent or empty.  From the clone on
\* the call removes nothing: a failing clone leaves the path as it found it,
\* and no later stage, failing or not, touches the install directories.
C35_RemovalAttemptedNoCleanup ==
    [][/\ pc = "clean" => cmds' = <<>> /\ cmds = <<>>
       /\ \A i \in {j \in 1..Len(cmds') : cmds'[j].kind = "clone"} :
             /\ cmds'[i].dest # "absent" => Name \notin removed'
             /\ (cmds'[i].dest = "files" /\ pc \notin {"idle", "clean"})
                  => pc' = "idle" /\ result' = "false" /\ failed_at' = "clone"
       /\ (pc \notin {"idle", "clean"} /\ ~demo_mode)
            => /\ removed' = removed
               /\ (pc # "clone" \/ pc' = "idle") => dirs' = dirs
               /\ (pc' = "idle" /\ pc # "clone") => CloneInPlace
      ]_vars

\* the second install of a server removed the first directory, cloned, and
\* failed at a later stage; the new clone is still there
C35_Witness ==
    /\ CallReturned /\ ~demo_mode /\ result = "false"
    /\ failed_at \in {"deps", "build", "env", "save"}
    /\ Name \in removed
    /\ CloneInPlace
    /\ \A i \in ClonesStarted : cmds[i].dest = "absent"

(***************************************************************************)
(* Claims about the env-requirement list (under SpecEnv)                   *)
(***************************************************************************)
NoRepeats(seq) == \A i, j \in 1..Len(seq) : seq[i] = seq[j] => i = j

\* C36: the env-requirement list install_mcp prompts for never holds the
\* same variable name twice, whichever of mcp.json, .env.example and the
\* README produced it.
C36_RequirementsAreASet ==
    (discovered.done /\ discovered.op = "discover") => NoRepeats(discovered.vars)

(***************************************************************************)
(* Claims about the env map of the stored entry                            *)
(***************************************************************************)
Elems(seq) == {seq[i] : i \in 1..Len(seq)}

StoredEnv == DictGet(EntryOnDisk, <<"env">>)

\* C37: the env map of the entry a real install has written holds only
\* names of the requirement list, each with the non-empty value entered at
\* its prompt; a name answered with an empty value is not in the map; with
\* skip_env_config nothing is prompted and the map is empty.
C37_EnvMapIsTheAnswers ==
    InstalledForReal
    => /\ Elems(DictKeys(StoredEnv)) \subseteq Elems(EnvRequirements(Content))
       /\ \A i \in 1..Len(prompted) :
             IF prompted[i].value # <<>>
             THEN /\ DictHas(StoredEnv, prompted[i].var)
                  /\ DictGet(StoredEnv, prompted[i].var) = JStr(prompted[i].value)
             ELSE ~DictHas(StoredEnv, prompted[i].var)
       /\ skip_env_config => prompted = <<>> /\ StoredEnv = JObj(<<>>)

(***************************************************************************)
(* Claims about how a call ends (under SpecLive)                           *)
(***************************************************************************)
RaisingStages == {"parse", "resolve", "env", "save"}

\* C38: every install_mcp call that has begun comes to its end and has
\* returned True or False by then; a stage that raised (a reference that
\* does not parse, the unbound executable path, a prompt or a write that
\* raises) has made the call return False.
C38_EveryCallReturnsABoolean ==
    /\ (pc # "idle") ~> (pc = "idle" /\ result \in {"true", "false"})
    /\ [](CallReturned => /\ result \in {"true", "false"}
                          /\ failed_at \in RaisingStages => result = "false")

\* a call that had cloned and installed was ended by an exception of a
\* later stage
C38_Witness ==
    /\ CallReturned /\ failed_at \in RaisingStages /\ result = "false"
    /\ cmds # <<>> /\ ~demo_mode

(***************************************************************************)
(* Claims about show_logs in follow mode (under SpecFollow)                *)
(***************************************************************************)
\* the lines emitted since following began, in the order they were emitted
EmittedSince == [i \in 1..(follow.emitted - follow.start) |-> follow.start + i]

\* C39: show_logs in follow mode prints the lines appended to the log after
\* following began, in their order and nothing else, every such line is
\* printed sooner or later unless the loop is interrupted, and the loop is
\* left only by an interrupt, after which show_logs has returned True.
C39_FollowPrintsEveryLine ==
    /\ [](follow.looped => IsPrefix(follow.printed, EmittedSince))
    /\ \A n \in 1..MaxEmitted :
          (follow.pc = "following" /\ follow.start < n /\ n <= follow.emitted)
             ~> (n \in Elems(follow.printed) \/ follow.pc = "returned")
    /\ [](follow.looped /\ follow.pc = "returned"
            => follow.interrupted /\ follow.returned = "true")

====
